---- MODULE Spec2Model ----
(***************************************************************************)
(* Model of the job-search utilities of hirebuddy: the two LocationService *)
(* alias tables, the Levenshtein similarity scorers and the two            *)
(* SearchService variants (filter, text search, scoring, sort, paginate).  *)
(*                                                                         *)
(* A JavaScript string is modelled as a sequence of one-character strings, *)
(* so that trim, toLowerCase, includes, split and the edit distance are    *)
(* computed and not assumed.  `undefined` is the value Undefined.          *)
(***************************************************************************)
EXTENDS Integers, Sequences, FiniteSets, TLC

VARIABLES
  pc,            \* position of the caller: which operation ran last
  location,      \* LocationService: the argument of normalizeLocation
  locTable,      \* LocationService: which implementation was called ("A" / "B")
  normalized,    \* LocationService: normalizeLocation(location)
  renormalized,  \* LocationService: normalizeLocation(normalized)
  variations,    \* LocationService: getLocationVariations(location)
  limitArg,      \* LocationService: the limit argument of searchLocations
  suggestions,   \* LocationService: searchLocations(location, limit)
  str1,          \* similarity: first argument
  str2,          \* similarity: second argument
  simImpl,       \* similarity: which implementation was called
  distance,      \* similarity: levenshteinDistance(str1, str2) and (str2, str1)
  similarity,    \* similarity: calculateSimilarity(str1, str2)
  jobs,          \* SearchService: the caller's job array
  params,        \* SearchService: the EnhancedSearchParams of the last call
  impl,          \* SearchService: [variant, table, engine] of the last call
  result,        \* SearchService: what the last searchJobs call resolved to
  tableWrites,   \* the keys of locationLookupMap and entries of
                 \* locationMappings written since the static initializers
  searchQuery,   \* EnhancedJobSearch: the searchQuery prop
  timers,        \* EnhancedJobSearch: the pending setTimeout calls, each with
                 \* the query its closure captured and the time since armed
  armed,         \* EnhancedJobSearch: the timer of the latest effect run is
                 \* pending (it is the last of timers)
  unchangedFor,  \* EnhancedJobSearch: time since searchQuery last changed
  suggestionList,  \* EnhancedJobSearch: the suggestions state
  showSuggestions, \* EnhancedJobSearch: the showSuggestions state
  recentSearches,  \* EnhancedJobSearch: the recentSearches state
  storedRecent,  \* localStorage item 'recentSearches': null or a string
  lastSearched,  \* EnhancedJobSearch: the term of the latest search, if any
  emailLogs,     \* table useremaillog: the rows [to, sentAt] of the user
  followupLogs,  \* table followuplogs: the rows [to, sentAt] of the user
  repliesKpi,    \* table replies_kpi: the `to` of the user's rows with reply
  allContacts,   \* what getContacts() resolves to: the contacts' emails
  clockShift,    \* the change of the local UTC offset over the last day
  contactsNeedingFollowup,  \* what getContactsWithSentEmails resolved to
  pending,       \* what getFollowupsNeededCount resolved to
  req,           \* resume-generation handler: the request
  handlerPc,     \* resume-generation handler: where the handler stands
  user,          \* resume-generation handler: what getUser resolved to
  awsResponse,   \* resume-generation handler: what fetch resolved to
  responses,     \* resume-generation handler: the statuses sent with res
  upstream       \* resume-generation handler: the upload_resume requests

vars == <<pc, location, locTable, normalized, renormalized, variations,
          limitArg, suggestions,
          str1, str2, simImpl, distance, similarity,
          jobs, params, impl, result, tableWrites,
          searchQuery, timers, armed, unchangedFor, suggestionList,
          showSuggestions, recentSearches, storedRecent, lastSearched,
          emailLogs, followupLogs, repliesKpi, allContacts, clockShift,
          contactsNeedingFollowup, pending,
          req, handlerPc, user, awsResponse, responses, upstream>>

boxVars == <<searchQuery, timers, armed, unchangedFor, suggestionList,
             showSuggestions, recentSearches, storedRecent, lastSearched>>
contactVars == <<emailLogs, followupLogs, repliesKpi, allContacts, clockShift,
                 contactsNeedingFollowup, pending>>
handlerVars == <<req, handlerPc, user, awsResponse, responses, upstream>>
otherVars == <<boxVars, contactVars, handlerVars>>
locVars == <<location, locTable, normalized, renormalized, variations,
             limitArg, suggestions>>
simVars == <<str1, str2, simImpl, distance, similarity>>
searchVars == <<jobs, params, impl, result>>

-----------------------------------------------------------------------------
(* JavaScript values and String.prototype methods                          *)

\* The value `undefined` (a missing field or an absent optional parameter).
Undefined == <<"undefined">>
\* The value `null`.
Null == <<"null">>

\* JavaScript truthiness of a string-or-undefined value: !x is true for
\* undefined and for the empty string.
truthy(x) == x # Undefined /\ x # <<>>

Range(seq) == {seq[i] : i \in DOMAIN seq}

UpperChars == <<"A","B","C","D","E","F","G","H","I","J","K","L","M",
                "N","O","P","Q","R","S","T","U","V","W","X","Y","Z">>
LowerChars == <<"a","b","c","d","e","f","g","h","i","j","k","l","m",
                "n","o","p","q","r","s","t","u","v","w","x","y","z">>

\* The lower-case and the upper-case form of each letter.
LowerOf == [c \in Range(UpperChars) |->
              LowerChars[CHOOSE k \in DOMAIN UpperChars : UpperChars[k] = c]]
UpperOf == [c \in Range(LowerChars) |->
              UpperChars[CHOOSE k \in DOMAIN LowerChars : LowerChars[k] = c]]

charToLower(c) == IF c \in DOMAIN LowerOf THEN LowerOf[c] ELSE c
charToUpper(c) == IF c \in DOMAIN UpperOf THEN UpperOf[c] ELSE c

\* String.prototype.toLowerCase
toLowerCase(s) == [i \in 1..Len(s) |-> charToLower(s[i])]

\* String.prototype.toUpperCase (used to build inputs in another letter case)
toUpperCase(s) == [i \in 1..Len(s) |-> charToUpper(s[i])]

isSpace(c) == c = " "

\* String.prototype.trim: drop leading and trailing white space.
trim(s) ==
  LET nonSpace == {i \in 1..Len(s) : ~isSpace(s[i])}
  IN IF nonSpace = {} THEN <<>>
     ELSE LET first == CHOOSE i \in nonSpace : \A j \in nonSpace : i <= j
              last == CHOOSE i \in nonSpace : \A j \in nonSpace : j <= i
          IN SubSeq(s, first, last)

\* String.prototype.includes
includes(s, t) ==
  \E i \in 0..(Len(s) - Len(t)) : SubSeq(s, i + 1, i + Len(t)) = t

\* String.prototype.startsWith
startsWith(s, t) == Len(t) <= Len(s) /\ SubSeq(s, 1, Len(t)) = t

\* Array.prototype.join(' ') of an array of strings; an undefined element is
\* joined as the empty string.
RECURSIVE joinSpace(_)
joinSpace(parts) ==
  IF parts = <<>> THEN <<>>
  ELSE LET hd == IF Head(parts) = Undefined THEN <<>> ELSE Head(parts)
       IN IF Len(parts) = 1 THEN hd
          ELSE hd \o <<" ">> \o joinSpace(Tail(parts))

\* String.prototype.split(/\s+/): the pieces between maximal runs of white
\* space; a leading or trailing run yields an empty first or last piece, and
\* the empty string yields [""].
RECURSIVE splitFrom(_, _, _, _)
splitFrom(s, i, cur, inGap) ==
  IF i > Len(s) THEN <<cur>>
  ELSE IF isSpace(s[i])
       THEN IF inGap THEN splitFrom(s, i + 1, cur, TRUE)
            ELSE <<cur>> \o splitFrom(s, i + 1, <<>>, TRUE)
       ELSE splitFrom(s, i + 1, Append(cur, s[i]), FALSE)

splitWhitespace(s) == splitFrom(s, 1, <<>>, FALSE)

Min(a, b) == IF a < b THEN a ELSE b
Max(a, b) == IF a > b THEN a ELSE b

-----------------------------------------------------------------------------
(* LocationService: the alias tables                                       *)

\* LocationService.locationMappings of the locationService module: an array of
\* {primary, variations} in source order (state and country are never read).
locationMappingsA ==
  << [primary |-> <<"B","a","n","g","a","l","o","r","e">>,
      variations |-> << <<"B","e","n","g","a","l","u","r","u">>, <<"B","a","n","g","a","l","u","r","u">>, <<"B","L","R">> >>],
     [primary |-> <<"M","u","m","b","a","i">>,
      variations |-> << <<"B","o","m","b","a","y">>, <<"B","O","M">> >>],
     [primary |-> <<"D","e","l","h","i">>,
      variations |-> << <<"N","e","w"," ","D","e","l","h","i">>, <<"N","C","R">>, <<"N","a","t","i","o","n","a","l"," ","C","a","p","i","t","a","l"," ","R","e","g","i","o","n">>, <<"G","u","r","g","a","o","n">>, <<"G","u","r","u","g","r","a","m">>, <<"N","o","i","d","a">>, <<"F","a","r","i","d","a","b","a","d">>, <<"G","h","a","z","i","a","b","a","d">> >>],
     [primary |-> <<"G","u","r","u","g","r","a","m">>,
      variations |-> << <<"G","u","r","g","a","o","n">>, <<"G","u","r","g","r","a","m">> >>],
     [primary |-> <<"H","y","d","e","r","a","b","a","d">>,
      variations |-> << <<"H","y","d">>, <<"C","y","b","e","r","a","b","a","d">> >>],
     [primary |-> <<"C","h","e","n","n","a","i">>,
      variations |-> << <<"M","a","d","r","a","s">>, <<"M","A","A">> >>],
     [primary |-> <<"P","u","n","e">>,
      variations |-> << <<"P","o","o","n","a">> >>],
     [primary |-> <<"K","o","l","k","a","t","a">>,
      variations |-> << <<"C","a","l","c","u","t","t","a">>, <<"C","C","U">> >>],
     [primary |-> <<"A","h","m","e","d","a","b","a","d">>,
      variations |-> << <<"A","M","D">> >>],
     [primary |-> <<"J","a","i","p","u","r">>,
      variations |-> << <<"J","P","R">> >>],
     [primary |-> <<"L","u","c","k","n","o","w">>,
      variations |-> << <<"L","K","O">> >>],
     [primary |-> <<"K","a","n","p","u","r">>,
      variations |-> << <<"C","a","w","n","p","o","r","e">> >>],
     [primary |-> <<"N","a","g","p","u","r">>,
      variations |-> << <<"N","A","G">> >>],
     [primary |-> <<"I","n","d","o","r","e">>,
      variations |-> << <<"I","D","R">> >>],
     [primary |-> <<"T","h","a","n","e">>,
      variations |-> << <<"T","h","a","n","a">> >>],
     [primary |-> <<"B","h","o","p","a","l">>,
      variations |-> << <<"B","P","L">> >>],
     [primary |-> <<"V","i","s","a","k","h","a","p","a","t","n","a","m">>,
      variations |-> << <<"V","i","z","a","g">>, <<"V","S","P">> >>],
     [primary |-> <<"P","a","t","n","a">>,
      variations |-> << <<"P","A","T">> >>],
     [primary |-> <<"V","a","d","o","d","a","r","a">>,
      variations |-> << <<"B","a","r","o","d","a">>, <<"B","D","Q">> >>],
     [primary |-> <<"G","h","a","z","i","a","b","a","d">>,
      variations |-> << <<"G","Z","B">> >>],
     [primary |-> <<"L","u","d","h","i","a","n","a">>,
      variations |-> << <<"L","U","H">> >>],
     [primary |-> <<"A","g","r","a">>,
      variations |-> << <<"A","G","R">> >>],
     [primary |-> <<"N","a","s","h","i","k">>,
      variations |-> << <<"N","a","s","i","k">>, <<"I","S","K">> >>],
     [primary |-> <<"R","a","n","c","h","i">>,
      variations |-> << <<"I","X","R">> >>],
     [primary |-> <<"F","a","r","i","d","a","b","a","d">>,
      variations |-> << <<"F","B","D">> >>],
     [primary |-> <<"N","o","i","d","a">>,
      variations |-> << <<"N","O","I","D","A">> >>],
     [primary |-> <<"C","h","a","n","d","i","g","a","r","h">>,
      variations |-> << <<"C","H","D">> >>],
     [primary |-> <<"C","o","i","m","b","a","t","o","r","e">>,
      variations |-> << <<"C","B","E">> >>],
     [primary |-> <<"K","o","c","h","i">>,
      variations |-> << <<"C","o","c","h","i","n">>, <<"C","O","K">> >>],
     [primary |-> <<"M","y","s","o","r","e">>,
      variations |-> << <<"M","y","s","u","r","u">>, <<"M","Y","Q">> >>],
     [primary |-> <<"V","i","j","a","y","a","w","a","d","a">>,
      variations |-> << <<"V","G","A">> >>],
     [primary |-> <<"J","a","b","a","l","p","u","r">>,
      variations |-> << <<"J","L","R">> >>],
     [primary |-> <<"G","w","a","l","i","o","r">>,
      variations |-> << <<"G","W","L">> >>],
     [primary |-> <<"J","o","d","h","p","u","r">>,
      variations |-> << <<"J","D","H">> >>],
     [primary |-> <<"M","a","d","u","r","a","i">>,
      variations |-> << <<"I","X","M">> >>],
     [primary |-> <<"G","u","w","a","h","a","t","i">>,
      variations |-> << <<"G","A","U">> >>],
     [primary |-> <<"C","h","a","n","d","i","g","a","r","h">>,
      variations |-> << <<"C","H","D">> >>],
     [primary |-> <<"H","u","b","l","i">>,
      variations |-> << <<"H","u","b","b","a","l","l","i">>, <<"H","B","X">> >>],
     [primary |-> <<"M","a","n","g","a","l","o","r","e">>,
      variations |-> << <<"M","a","n","g","a","l","u","r","u">>, <<"I","X","E">> >>],
     [primary |-> <<"D","e","h","r","a","d","u","n">>,
      variations |-> << <<"D","E","D">> >>],
     [primary |-> <<"A","m","r","i","t","s","a","r">>,
      variations |-> << <<"A","T","Q">> >>],
     [primary |-> <<"V","a","r","a","n","a","s","i">>,
      variations |-> << <<"B","a","n","a","r","a","s">>, <<"V","N","S">> >>],
     [primary |-> <<"A","l","l","a","h","a","b","a","d">>,
      variations |-> << <<"P","r","a","y","a","g","r","a","j">>, <<"I","X","D">> >>],
     [primary |-> <<"H","o","w","r","a","h">>,
      variations |-> << <<"H","W","H">> >>],
     [primary |-> <<"A","u","r","a","n","g","a","b","a","d">>,
      variations |-> << <<"I","X","U">> >>],
     [primary |-> <<"S","o","l","a","p","u","r">>,
      variations |-> << <<"S","S","E">> >>],
     [primary |-> <<"S","r","i","n","a","g","a","r">>,
      variations |-> << <<"S","X","R">> >>],
     [primary |-> <<"K","o","l","h","a","p","u","r">>,
      variations |-> << <<"K","L","H">> >>],
     [primary |-> <<"A","j","m","e","r">>,
      variations |-> << <<"A","J","M">> >>],
     [primary |-> <<"G","u","l","b","a","r","g","a">>,
      variations |-> << <<"K","a","l","a","b","u","r","a","g","i">>, <<"G","B","I">> >>],
     [primary |-> <<"L","o","n","i">>,
      variations |-> << <<"L","O","N","I">> >>],
     [primary |-> <<"U","j","j","a","i","n">>,
      variations |-> << <<"U","J","N">> >>],
     [primary |-> <<"S","i","l","i","g","u","r","i">>,
      variations |-> << <<"I","X","B">> >>],
     [primary |-> <<"J","h","a","n","s","i">>,
      variations |-> << <<"V","N","S">> >>],
     [primary |-> <<"S","a","h","a","r","a","n","p","u","r">>,
      variations |-> << <<"S","R","E">> >>],
     [primary |-> <<"W","a","r","a","n","g","a","l">>,
      variations |-> << <<"W","G","C">> >>],
     [primary |-> <<"S","a","l","e","m">>,
      variations |-> << <<"S","X","V">> >>],
     [primary |-> <<"M","a","l","e","g","a","o","n">>,
      variations |-> << <<"M","A","L">> >>],
     [primary |-> <<"G","u","n","t","u","r">>,
      variations |-> << <<"G","N","T">> >>],
     [primary |-> <<"B","h","i","w","a","n","d","i">>,
      variations |-> << <<"B","H","I">> >>],
     [primary |-> <<"S","a","h","a","r","a","n","p","u","r">>,
      variations |-> << <<"S","R","E">> >>],
     [primary |-> <<"C","u","t","t","a","c","k">>,
      variations |-> << <<"B","B","I">> >>],
     [primary |-> <<"F","i","r","o","z","a","b","a","d">>,
      variations |-> << <<"F","Z","D">> >>],
     [primary |-> <<"K","o","c","h","i">>,
      variations |-> << <<"C","o","c","h","i","n">>, <<"C","O","K">> >>],
     [primary |-> <<"N","e","l","l","o","r","e">>,
      variations |-> << <<"N","L","R">> >>],
     [primary |-> <<"B","h","a","v","n","a","g","a","r">>,
      variations |-> << <<"B","H","U">> >>],
     [primary |-> <<"D","e","h","r","a","d","u","n">>,
      variations |-> << <<"D","E","D">> >>],
     [primary |-> <<"D","u","r","g","a","p","u","r">>,
      variations |-> << <<"R","D","P">> >>],
     [primary |-> <<"A","s","a","n","s","o","l">>,
      variations |-> << <<"A","S","N">> >>],
     [primary |-> <<"R","o","u","r","k","e","l","a">>,
      variations |-> << <<"R","R","K">> >>],
     [primary |-> <<"B","h","i","l","a","i">>,
      variations |-> << <<"B","I","L">> >>],
     [primary |-> <<"A","m","r","a","v","a","t","i">>,
      variations |-> << <<"A","M","R">> >>],
     [primary |-> <<"N","a","n","d","e","d">>,
      variations |-> << <<"N","D","C">> >>],
     [primary |-> <<"K","o","l","h","a","p","u","r">>,
      variations |-> << <<"K","L","H">> >>],
     [primary |-> <<"S","a","n","g","l","i">>,
      variations |-> << <<"S","L","I">> >>],
     [primary |-> <<"B","i","k","a","n","e","r">>,
      variations |-> << <<"B","K","B">> >>],
     [primary |-> <<"B","o","k","a","r","o">>,
      variations |-> << <<"B","K","R">> >>],
     [primary |-> <<"B","h","u","b","a","n","e","s","w","a","r">>,
      variations |-> << <<"B","B","I">> >>],
     [primary |-> <<"T","i","r","u","c","h","i","r","a","p","p","a","l","l","i">>,
      variations |-> << <<"T","r","i","c","h","y">>, <<"T","R","Z">> >>],
     [primary |-> <<"T","i","r","u","p","p","u","r">>,
      variations |-> << <<"T","I","R">> >>],
     [primary |-> <<"E","r","o","d","e">>,
      variations |-> << <<"E","R","D">> >>],
     [primary |-> <<"T","i","r","u","n","e","l","v","e","l","i">>,
      variations |-> << <<"T","I","R">> >>],
     [primary |-> <<"G","u","n","t","u","r">>,
      variations |-> << <<"G","N","T">> >>],
     [primary |-> <<"R","a","j","a","h","m","u","n","d","r","y">>,
      variations |-> << <<"R","J","A">> >>],
     [primary |-> <<"K","a","k","i","n","a","d","a">>,
      variations |-> << <<"K","A","K">> >>],
     [primary |-> <<"N","i","z","a","m","a","b","a","d">>,
      variations |-> << <<"N","I","Z">> >>],
     [primary |-> <<"K","a","r","i","m","n","a","g","a","r">>,
      variations |-> << <<"K","R","M">> >>],
     [primary |-> <<"R","a","m","a","g","u","n","d","a","m">>,
      variations |-> << <<"R","M","D">> >>],
     [primary |-> <<"W","a","r","a","n","g","a","l">>,
      variations |-> << <<"W","G","C">> >>],
     [primary |-> <<"K","h","a","m","m","a","m">>,
      variations |-> << <<"K","H","M">> >>],
     [primary |-> <<"N","a","l","g","o","n","d","a">>,
      variations |-> << <<"N","L","D">> >>],
     [primary |-> <<"M","a","h","b","u","b","n","a","g","a","r">>,
      variations |-> << <<"M","B","N">> >>],
     [primary |-> <<"A","d","i","l","a","b","a","d">>,
      variations |-> << <<"A","D","B">> >>],
     [primary |-> <<"S","u","r","y","a","p","e","t">>,
      variations |-> << <<"S","R","P">> >>],
     [primary |-> <<"J","a","g","t","i","a","l">>,
      variations |-> << <<"J","G","T">> >>],
     [primary |-> <<"M","a","n","c","h","e","r","i","a","l">>,
      variations |-> << <<"M","C","R">> >>],
     [primary |-> <<"P","e","d","d","a","p","a","l","l","i">>,
      variations |-> << <<"P","D","P">> >>],
     [primary |-> <<"K","a","m","a","r","e","d","d","y">>,
      variations |-> << <<"K","M","R">> >>],
     [primary |-> <<"S","i","d","d","i","p","e","t">>,
      variations |-> << <<"S","D","P">> >>],
     [primary |-> <<"M","e","d","a","k">>,
      variations |-> << <<"M","D","K">> >>],
     [primary |-> <<"S","a","n","g","a","r","e","d","d","y">>,
      variations |-> << <<"S","G","R">> >>],
     [primary |-> <<"M","e","d","c","h","a","l">>,
      variations |-> << <<"M","C","L">> >>],
     [primary |-> <<"R","a","n","g","a","r","e","d","d","y">>,
      variations |-> << <<"R","G","R">> >>],
     [primary |-> <<"V","i","k","a","r","a","b","a","d">>,
      variations |-> << <<"V","K","B">> >>],
     [primary |-> <<"S","a","n","g","a","r","e","d","d","y">>,
      variations |-> << <<"S","G","R">> >>],
     [primary |-> <<"M","e","d","c","h","a","l">>,
      variations |-> << <<"M","C","L">> >>],
     [primary |-> <<"R","a","n","g","a","r","e","d","d","y">>,
      variations |-> << <<"R","G","R">> >>],
     [primary |-> <<"V","i","k","a","r","a","b","a","d">>,
      variations |-> << <<"V","K","B">> >>] >>

\* LocationService.locationMappings of the second LocationService: an object
\* literal; Object.entries visits its keys in the order they are written.
locationMappingsB ==
  << [primary |-> <<"B","a","n","g","a","l","o","r","e">>,
      variations |-> << <<"B","e","n","g","a","l","u","r","u">>, <<"B","a","n","g","a","l","u","r","u">>, <<"B","L","R">>, <<"B","a","n","g","a","l","o","r","e",","," ","K","a","r","n","a","t","a","k","a">>, <<"B","e","n","g","a","l","u","r","u",","," ","K","a","r","n","a","t","a","k","a">> >>],
     [primary |-> <<"B","e","n","g","a","l","u","r","u">>,
      variations |-> << <<"B","a","n","g","a","l","o","r","e">>, <<"B","a","n","g","a","l","u","r","u">>, <<"B","L","R">>, <<"B","a","n","g","a","l","o","r","e",","," ","K","a","r","n","a","t","a","k","a">>, <<"B","e","n","g","a","l","u","r","u",","," ","K","a","r","n","a","t","a","k","a">> >>],
     [primary |-> <<"M","u","m","b","a","i">>,
      variations |-> << <<"B","o","m","b","a","y">>, <<"B","O","M">>, <<"M","u","m","b","a","i",","," ","M","a","h","a","r","a","s","h","t","r","a">>, <<"B","o","m","b","a","y",","," ","M","a","h","a","r","a","s","h","t","r","a">> >>],
     [primary |-> <<"B","o","m","b","a","y">>,
      variations |-> << <<"M","u","m","b","a","i">>, <<"B","O","M">>, <<"M","u","m","b","a","i",","," ","M","a","h","a","r","a","s","h","t","r","a">>, <<"B","o","m","b","a","y",","," ","M","a","h","a","r","a","s","h","t","r","a">> >>],
     [primary |-> <<"D","e","l","h","i">>,
      variations |-> << <<"N","e","w"," ","D","e","l","h","i">>, <<"N","C","R">>, <<"D","e","l","h","i",","," ","I","n","d","i","a">>, <<"N","e","w"," ","D","e","l","h","i",","," ","I","n","d","i","a">>, <<"N","a","t","i","o","n","a","l"," ","C","a","p","i","t","a","l"," ","R","e","g","i","o","n">> >>],
     [primary |-> <<"N","e","w"," ","D","e","l","h","i">>,
      variations |-> << <<"D","e","l","h","i">>, <<"N","C","R">>, <<"D","e","l","h","i",","," ","I","n","d","i","a">>, <<"N","e","w"," ","D","e","l","h","i",","," ","I","n","d","i","a">>, <<"N","a","t","i","o","n","a","l"," ","C","a","p","i","t","a","l"," ","R","e","g","i","o","n">> >>],
     [primary |-> <<"G","u","r","u","g","r","a","m">>,
      variations |-> << <<"G","u","r","g","a","o","n">>, <<"G","u","r","g","r","a","m">>, <<"G","u","r","u","g","r","a","m",","," ","H","a","r","y","a","n","a">>, <<"G","u","r","g","a","o","n",","," ","H","a","r","y","a","n","a">> >>],
     [primary |-> <<"G","u","r","g","a","o","n">>,
      variations |-> << <<"G","u","r","u","g","r","a","m">>, <<"G","u","r","g","r","a","m">>, <<"G","u","r","u","g","r","a","m",","," ","H","a","r","y","a","n","a">>, <<"G","u","r","g","a","o","n",","," ","H","a","r","y","a","n","a">> >>],
     [primary |-> <<"H","y","d","e","r","a","b","a","d">>,
      variations |-> << <<"H","y","d">>, <<"H","y","d","e","r","a","b","a","d",","," ","T","e","l","a","n","g","a","n","a">>, <<"H","y","d","e","r","a","b","a","d",","," ","A","P">> >>],
     [primary |-> <<"C","h","e","n","n","a","i">>,
      variations |-> << <<"M","a","d","r","a","s">>, <<"C","h","e","n","n","a","i",","," ","T","a","m","i","l"," ","N","a","d","u">>, <<"M","a","d","r","a","s",","," ","T","a","m","i","l"," ","N","a","d","u">> >>],
     [primary |-> <<"M","a","d","r","a","s">>,
      variations |-> << <<"C","h","e","n","n","a","i">>, <<"C","h","e","n","n","a","i",","," ","T","a","m","i","l"," ","N","a","d","u">>, <<"M","a","d","r","a","s",","," ","T","a","m","i","l"," ","N","a","d","u">> >>],
     [primary |-> <<"P","u","n","e">>,
      variations |-> << <<"P","u","n","e",","," ","M","a","h","a","r","a","s","h","t","r","a">> >>],
     [primary |-> <<"N","o","i","d","a">>,
      variations |-> << <<"N","o","i","d","a",","," ","U","P">>, <<"N","o","i","d","a",","," ","U","t","t","a","r"," ","P","r","a","d","e","s","h">> >>],
     [primary |-> <<"K","o","l","k","a","t","a">>,
      variations |-> << <<"C","a","l","c","u","t","t","a">>, <<"K","o","l","k","a","t","a",","," ","W","e","s","t"," ","B","e","n","g","a","l">>, <<"C","a","l","c","u","t","t","a",","," ","W","e","s","t"," ","B","e","n","g","a","l">> >>],
     [primary |-> <<"C","a","l","c","u","t","t","a">>,
      variations |-> << <<"K","o","l","k","a","t","a">>, <<"K","o","l","k","a","t","a",","," ","W","e","s","t"," ","B","e","n","g","a","l">>, <<"C","a","l","c","u","t","t","a",","," ","W","e","s","t"," ","B","e","n","g","a","l">> >>],
     [primary |-> <<"A","h","m","e","d","a","b","a","d">>,
      variations |-> << <<"A","h","m","a","d","a","b","a","d">>, <<"A","h","m","e","d","a","b","a","d",","," ","G","u","j","a","r","a","t">>, <<"A","h","m","a","d","a","b","a","d",","," ","G","u","j","a","r","a","t">> >>],
     [primary |-> <<"A","h","m","a","d","a","b","a","d">>,
      variations |-> << <<"A","h","m","e","d","a","b","a","d">>, <<"A","h","m","e","d","a","b","a","d",","," ","G","u","j","a","r","a","t">>, <<"A","h","m","a","d","a","b","a","d",","," ","G","u","j","a","r","a","t">> >>],
     [primary |-> <<"J","a","i","p","u","r">>,
      variations |-> << <<"J","a","i","p","u","r",","," ","R","a","j","a","s","t","h","a","n">> >>],
     [primary |-> <<"L","u","c","k","n","o","w">>,
      variations |-> << <<"L","u","c","k","n","o","w",","," ","U","P">>, <<"L","u","c","k","n","o","w",","," ","U","t","t","a","r"," ","P","r","a","d","e","s","h">> >>],
     [primary |-> <<"C","h","a","n","d","i","g","a","r","h">>,
      variations |-> << <<"C","h","a","n","d","i","g","a","r","h",","," ","P","u","n","j","a","b">>, <<"C","h","a","n","d","i","g","a","r","h",","," ","H","a","r","y","a","n","a">> >>],
     [primary |-> <<"I","n","d","o","r","e">>,
      variations |-> << <<"I","n","d","o","r","e",","," ","M","a","d","h","y","a"," ","P","r","a","d","e","s","h">> >>],
     [primary |-> <<"B","h","o","p","a","l">>,
      variations |-> << <<"B","h","o","p","a","l",","," ","M","a","d","h","y","a"," ","P","r","a","d","e","s","h">> >>],
     [primary |-> <<"V","a","d","o","d","a","r","a">>,
      variations |-> << <<"B","a","r","o","d","a">>, <<"V","a","d","o","d","a","r","a",","," ","G","u","j","a","r","a","t">>, <<"B","a","r","o","d","a",","," ","G","u","j","a","r","a","t">> >>],
     [primary |-> <<"B","a","r","o","d","a">>,
      variations |-> << <<"V","a","d","o","d","a","r","a">>, <<"V","a","d","o","d","a","r","a",","," ","G","u","j","a","r","a","t">>, <<"B","a","r","o","d","a",","," ","G","u","j","a","r","a","t">> >>],
     [primary |-> <<"C","o","i","m","b","a","t","o","r","e">>,
      variations |-> << <<"C","o","i","m","b","a","t","o","r","e",","," ","T","a","m","i","l"," ","N","a","d","u">> >>],
     [primary |-> <<"V","i","s","h","a","k","h","a","p","a","t","n","a","m">>,
      variations |-> << <<"V","i","z","a","g">>, <<"V","i","s","h","a","k","h","a","p","a","t","n","a","m",","," ","A","n","d","h","r","a"," ","P","r","a","d","e","s","h">>, <<"V","i","z","a","g",","," ","A","n","d","h","r","a"," ","P","r","a","d","e","s","h">> >>],
     [primary |-> <<"V","i","z","a","g">>,
      variations |-> << <<"V","i","s","h","a","k","h","a","p","a","t","n","a","m">>, <<"V","i","s","h","a","k","h","a","p","a","t","n","a","m",","," ","A","n","d","h","r","a"," ","P","r","a","d","e","s","h">>, <<"V","i","z","a","g",","," ","A","n","d","h","r","a"," ","P","r","a","d","e","s","h">> >>],
     [primary |-> <<"R","e","m","o","t","e">>,
      variations |-> << <<"W","o","r","k"," ","f","r","o","m"," ","H","o","m","e">>, <<"W","F","H">>, <<"R","e","m","o","t","e"," ","W","o","r","k">>, <<"H","o","m","e"," ","O","f","f","i","c","e">>, <<"V","i","r","t","u","a","l">>, <<"O","n","l","i","n","e">> >>],
     [primary |-> <<"W","o","r","k"," ","f","r","o","m"," ","H","o","m","e">>,
      variations |-> << <<"R","e","m","o","t","e">>, <<"W","F","H">>, <<"R","e","m","o","t","e"," ","W","o","r","k">>, <<"H","o","m","e"," ","O","f","f","i","c","e">>, <<"V","i","r","t","u","a","l">>, <<"O","n","l","i","n","e">> >>],
     [primary |-> <<"W","F","H">>,
      variations |-> << <<"R","e","m","o","t","e">>, <<"W","o","r","k"," ","f","r","o","m"," ","H","o","m","e">>, <<"R","e","m","o","t","e"," ","W","o","r","k">>, <<"H","o","m","e"," ","O","f","f","i","c","e">>, <<"V","i","r","t","u","a","l">>, <<"O","n","l","i","n","e">> >>] >>
\* The keys one entry writes in the static initializer: its primary name and
\* each of its variations, lowercased.  Every one is set to the entry's primary.
entryKeys(m) ==
  {toLowerCase(m.primary)} \cup {toLowerCase(v) : v \in Range(m.variations)}

\* The map the static initializer leaves: forEach visits the entries in order
\* and set() overwrites, so a key holds the primary of the last entry that
\* writes it.
buildLookupMap(mappings) ==
  LET writers(k) == {i \in DOMAIN mappings : k \in entryKeys(mappings[i])}
      lastWriter(k) == CHOOSE i \in writers(k) : \A j \in writers(k) : j <= i
  IN [k \in UNION {entryKeys(mappings[i]) : i \in DOMAIN mappings} |->
        mappings[lastWriter(k)].primary]

\* The class LocationService after static initialization: its two static
\* fields.  The operations below read them through self, as the code does
\* through this.
LocationServiceA ==
  [impl |-> "A",
   locationMappings |-> locationMappingsA,
   locationLookupMap |-> buildLookupMap(locationMappingsA)]
LocationServiceB ==
  [impl |-> "B",
   locationMappings |-> locationMappingsB,
   locationLookupMap |-> buildLookupMap(locationMappingsB)]

\* Map.prototype.get(key) || fallback, and the same read of a plain object.
getOr(map, key, fallback) == IF key \in DOMAIN map THEN map[key] ELSE fallback

\* LocationService.normalizeLocation, first implementation: the fallback is
\* the argument itself.
normalizeLocationA(self, loc) ==
  IF ~truthy(loc) THEN loc
  ELSE getOr(self.locationLookupMap, toLowerCase(trim(loc)), loc)

\* The second implementation keeps its lookup map in a plain object ({}), and
\* a read obj[key] of a plain object also finds what the object inherits from
\* Object.prototype: the function Object under "constructor" and the
\* prototype itself under "__proto__" (the other inherited names have a
\* capital letter, which a lowercased key never has).  Neither is a string.
ObjectConstructor == <<"function Object">>
ObjectPrototype == <<"Object.prototype">>
inheritedProperties ==
  (<<"c","o","n","s","t","r","u","c","t","o","r">> :> ObjectConstructor) @@ (<<"_","_","p","r","o","t","o","_","_">> :> ObjectPrototype)

\* The outcome of a call that threw a TypeError.
TypeError == <<"TypeError">>

isString(x) ==
  x \notin {Undefined, ObjectConstructor, ObjectPrototype, TypeError}

\* obj[key] || fallback on a plain object.
getPropertyOr(obj, key, fallback) ==
  IF key \in DOMAIN obj THEN obj[key]
  ELSE getOr(inheritedProperties, key, fallback)

\* LocationService.normalizeLocation, second implementation: the fallback is
\* the trimmed argument, and a falsy argument gives "".
normalizeLocationB(self, loc) ==
  IF ~truthy(loc) THEN <<>>
  ELSE IF ~isString(loc) THEN TypeError   \* location.trim is not a function
  ELSE getPropertyOr(self.locationLookupMap, toLowerCase(trim(loc)), trim(loc))

\* The LocationService a caller imports from './locationService': one of the
\* two classes of that name.
Tables == {"A", "B"}
LocationService(t) == IF t = "A" THEN LocationServiceA ELSE LocationServiceB

normalizeLocation(self, loc) ==
  IF self.impl = "A" THEN normalizeLocationA(self, loc)
  ELSE normalizeLocationB(self, loc)

\* locationMappings.find(m => m.primary.toLowerCase() === primary.toLowerCase()):
\* the index of the first such entry, 0 when there is none.
findMapping(mappings, primary) ==
  LET found == {i \in DOMAIN mappings :
                  toLowerCase(mappings[i].primary) = toLowerCase(primary)}
  IN IF found = {} THEN 0 ELSE CHOOSE i \in found : \A j \in found : i <= j

\* mapping ? [mapping.primary, ...mapping.variations] : [location]
mappingNames(mappings, i, loc) ==
  IF i = 0 THEN <<loc>> ELSE <<mappings[i].primary>> \o mappings[i].variations

\* The rest of getLocationVariations once the lookup map was read: primary is
\* undefined for a name that is not registered.
variationsOfPrimary(self, primary, loc) ==
  IF primary = Undefined THEN <<loc>>
  ELSE mappingNames(self.locationMappings,
                    findMapping(self.locationMappings, primary), loc)

\* LocationService.getLocationVariations, first implementation.
getLocationVariationsA(self, loc) ==
  IF ~truthy(loc) THEN <<>>
  ELSE variationsOfPrimary(
         self, getOr(self.locationLookupMap, toLowerCase(trim(loc)), Undefined),
         loc)

\* [normalized, ...(locationMappings[normalized] || [])]: the entry is looked
\* up under the normalized name itself (an exact key of the object).
withVariations(mappings, normalizedName) ==
  LET found == {i \in DOMAIN mappings : mappings[i].primary = normalizedName}
  IN <<normalizedName>>
       \o (IF found = {} THEN <<>>
           ELSE mappings[CHOOSE i \in found : TRUE].variations)

\* LocationService.getLocationVariations, second implementation.
getLocationVariationsB(self, loc) ==
  withVariations(self.locationMappings, normalizeLocationB(self, loc))

getLocationVariations(self, loc) ==
  IF self.impl = "A" THEN getLocationVariationsA(self, loc)
  ELSE getLocationVariationsB(self, loc)

-----------------------------------------------------------------------------
(* Edit distance and similarity                                            *)

\* A JavaScript number that is a ratio of two lengths is kept exact as
\* <<numerator, denominator>>; 0/0 (NaN) is <<0, 0>>.
NaN == <<0, 0>>
ratio(num, den) == IF den = 0 THEN NaN ELSE <<num, den>>
isNaN(x) == x[2] = 0
\* x === n for an integer n, and x > num/den; every comparison with NaN is false.
numEquals(x, n) == ~isNaN(x) /\ x[1] = n * x[2]
greaterThan(x, num, den) == ~isNaN(x) /\ x[1] * den > num * x[2]

\* A fill that forgets the + 1 of the cell above.
RECURSIVE levFillRow_noInsertionCost(_, _, _, _, _)
levFillRow_noInsertionCost(row, prev, s1, c2, i) ==
  IF Len(row) > Len(s1) THEN row
  ELSE LET indicator == IF s1[i] = c2 THEN 0 ELSE 1
           cell == Min(Min(row[i] + 1, prev[i + 1]), prev[i] + indicator)
       IN levFillRow_noInsertionCost(Append(row, cell), prev, s1, c2, i + 1)

\* One row of the matrix of levenshteinDistance: row holds matrix[j][0..i-1],
\* prev is matrix[j-1]; cell i is the minimum of deletion, insertion and
\* substitution. The row is complete when it holds str1.length + 1 cells.
RECURSIVE levFillRow(_, _, _, _, _)
levFillRow(row, prev, s1, c2, i) ==
  IF Len(row) > Len(s1) THEN row
  ELSE LET indicator == IF s1[i] = c2 THEN 0 ELSE 1
           cell == Min(Min(row[i] + 1, prev[i + 1] + 1), prev[i] + indicator)
       IN levFillRow(Append(row, cell), prev, s1, c2, i + 1)

\* The rows matrix[0..str2.length]: matrix holds the rows 0..j-1 and row j
\* is filled from row j-1.
RECURSIVE levRows(_, _, _, _)
levRows(matrix, s1, s2, j) ==
  IF Len(matrix) > Len(s2) THEN matrix
  ELSE levRows(Append(matrix, levFillRow(<<j>>, matrix[j], s1, s2[j], 1)),
               s1, s2, j + 1)

\* levenshteinDistance(str1, str2): matrix[str2.length][str1.length], with
\* matrix[0][i] = i and matrix[j][0] = j.
levenshteinDistance(s1, s2) ==
  levRows(<<[i \in 1..(Len(s1) + 1) |-> i - 1]>>, s1, s2, 1)
    [Len(s2) + 1][Len(s1) + 1]

\* SearchService.levenshteinDistance (second variant) and
\* LocationService.levenshteinDistance (second implementation): same text.
levenshteinDistanceSearch2(s1, s2) == levenshteinDistance(s1, s2)
levenshteinDistanceLocationB(s1, s2) == levenshteinDistance(s1, s2)

\* calculateSimilarity with the early returns, as in the second SearchService
\* variant and the second LocationService.
\* editDistance is levenshteinDistance(longer, shorter) of the implementation.
longerOf(s1, s2) == IF Len(s1) > Len(s2) THEN s1 ELSE s2
shorterOf(s1, s2) == IF Len(s1) > Len(s2) THEN s2 ELSE s1

similarityByDistance(s1, s2, longer, distanceOfLonger) ==
  IF s1 = s2 THEN ratio(1, 1)
  ELSE IF Len(s1) = 0 THEN ratio(0, 1)
  ELSE IF Len(s2) = 0 THEN ratio(0, 1)
  ELSE IF Len(longer) = 0 THEN ratio(1, 1)
  ELSE ratio(Len(longer) - distanceOfLonger, Len(longer))

calculateSimilaritySearch2(s1, s2) ==
  similarityByDistance(s1, s2, longerOf(s1, s2),
    levenshteinDistanceSearch2(longerOf(s1, s2), shorterOf(s1, s2)))
calculateSimilarityLocationB(s1, s2) ==
  similarityByDistance(s1, s2, longerOf(s1, s2),
    levenshteinDistanceLocationB(longerOf(s1, s2), shorterOf(s1, s2)))

\* One row of the matrix that calculateSimilarity of the first LocationService
\* and the first SearchService variant builds inline: equal characters copy
\* the diagonal, otherwise 1 + the minimum of diagonal, left and above.
RECURSIVE matrixFillRow(_, _, _, _, _)
matrixFillRow(row, prev, s1, c2, j) ==
  IF Len(row) > Len(s1) THEN row
  ELSE LET cell == IF c2 = s1[j] THEN prev[j]
                   ELSE Min(Min(prev[j] + 1, row[j] + 1), prev[j + 1] + 1)
       IN matrixFillRow(Append(row, cell), prev, s1, c2, j + 1)

RECURSIVE matrixRows(_, _, _, _)
matrixRows(matrix, s1, s2, i) ==
  IF Len(matrix) > Len(s2) THEN matrix
  ELSE matrixRows(Append(matrix, matrixFillRow(<<i>>, matrix[i], s1, s2[i], 1)),
                  s1, s2, i + 1)

\* matrix[str2.length][str1.length] of that inline matrix.
matrixDistance(s1, s2) ==
  matrixRows(<<[j \in 1..(Len(s1) + 1) |-> j - 1]>>, s1, s2, 1)
    [Len(s2) + 1][Len(s1) + 1]

\* return 1 - (matrix[str2.length][str1.length] / maxLength): no early
\* return, so two empty strings divide 0 by 0.
similarityByMatrix(s1, s2) ==
  LET maxLength == Max(Len(s1), Len(s2))
  IN ratio(maxLength - matrixDistance(s1, s2), maxLength)

calculateSimilarityLocationA(s1, s2) == similarityByMatrix(s1, s2)
calculateSimilaritySearch1(s1, s2) == similarityByMatrix(s1, s2)

SimImpls == {"LocationA", "Search1", "Search2", "LocationB"}

calculateSimilarity(i, s1, s2) ==
  CASE i = "LocationA" -> calculateSimilarityLocationA(s1, s2)
    [] i = "Search1" -> calculateSimilaritySearch1(s1, s2)
    [] i = "Search2" -> calculateSimilaritySearch2(s1, s2)
    [] i = "LocationB" -> calculateSimilarityLocationB(s1, s2)

\* The edit distance each implementation computes.
editDistance(i, s1, s2) ==
  CASE i = "LocationA" -> matrixDistance(s1, s2)
    [] i = "Search1" -> matrixDistance(s1, s2)
    [] i = "Search2" -> levenshteinDistanceSearch2(s1, s2)
    [] i = "LocationB" -> levenshteinDistanceLocationB(s1, s2)

-----------------------------------------------------------------------------
(* SearchService: helpers shared by the two variants                       *)

\* A Job is a record [id, isNull, title, company, location, description,
\* tags, isRemote, isProbablyRemote, createdAt]; a string field or tags may
\* be Undefined, and isNull marks an array element that is null instead of a
\* record, on which every property read throws a TypeError.  createdAt is a
\* day number and Now the day of the call, so that getDaysSincePosted =
\* ceil(|now - created| / one day) is their difference.
getDaysSincePosted(createdAt, now) ==
  IF now >= createdAt THEN now - createdAt ELSE createdAt - now

includesAny(text, words) == \E w \in words : includes(text, w)

\* The key of String.prototype.localeCompare: letters compare without regard
\* to case, a space sorts before every letter, and a string sorts after its
\* proper prefixes.
CollationOrder == <<" ", ",">> \o LowerChars
CollationKey ==
  [c \in Range(CollationOrder) |->
     CHOOSE k \in DOMAIN CollationOrder : CollationOrder[k] = c]
collationKey(c) ==
  IF charToLower(c) \in DOMAIN CollationKey THEN CollationKey[charToLower(c)]
  ELSE 0

RECURSIVE comparePrimary(_, _)
comparePrimary(a, b) ==
  IF a = <<>> /\ b = <<>> THEN 0
  ELSE IF a = <<>> THEN -1
  ELSE IF b = <<>> THEN 1
  ELSE IF collationKey(Head(a)) < collationKey(Head(b)) THEN -1
  ELSE IF collationKey(Head(a)) > collationKey(Head(b)) THEN 1
  ELSE comparePrimary(Tail(a), Tail(b))

\* Among strings equal but for case, the first differing letter decides:
\* lower case first.
RECURSIVE compareCase(_, _)
compareCase(a, b) ==
  IF a = <<>> \/ b = <<>> THEN 0
  ELSE IF Head(a) = Head(b) THEN compareCase(Tail(a), Tail(b))
  ELSE IF charToLower(Head(a)) = Head(a) THEN -1 ELSE 1

\* x || y of two comparison results
firstNonZero(x, y) == IF x # 0 THEN x ELSE y

localeCompare(a, b) == firstNonZero(comparePrimary(a, b), compareCase(a, b))

\* Whether the element at index j ends up before the one at index i, given
\* the comparator's result c for them: the sort is stable.
sortsBefore(c, j, i) == c < 0 \/ (c = 0 /\ j < i)

\* Array.prototype.sort, given the comparator's results: comparisons[j][i] is
\* its result for (seq[j], seq[i]), negative for seq[j] before seq[i].  The
\* sort is stable, so with a comparator that orders by a key the element at
\* index i ends up after every element that compares before it and after the
\* equal elements that stood before it.
stableSort(seq, comparisons) ==
  LET before(i) == {j \in DOMAIN seq : sortsBefore(comparisons[j][i], j, i)}
  IN [k \in DOMAIN seq |->
        seq[CHOOSE i \in DOMAIN seq : Cardinality(before(i)) = k - 1]]

\* Array.prototype.filter, given for each index whether the callback returned
\* true: the elements kept, in their order.
filterByFlags(seq, flags) ==
  LET kept == {i \in DOMAIN seq : flags[i]}
  IN [k \in 1..Cardinality(kept) |->
        seq[CHOOSE i \in kept : Cardinality({j \in kept : j < i}) = k - 1]]

\* Array.prototype.slice(start, end) with 0-based start and exclusive end.
slice(seq, start, end) ==
  SubSeq(seq, Min(start, Len(seq)) + 1, Min(end, Len(seq)))

\* A value a step either produced or threw an exception instead of.
Returned(v) == [thrown |-> FALSE, value |-> v]
Thrown == [thrown |-> TRUE, value |-> <<>>]

\* params.filters?.x : undefined when no filters object was passed.
paramLocation(p) == IF p.filters.present THEN p.filters.location ELSE Undefined
paramExperience(p) == IF p.filters.present THEN p.filters.experience ELSE ""
paramRemote(p) == IF p.filters.present THEN p.filters.remote ELSE ""

\* fuzzySearch: boolean = true, the default standing in for undefined.
fuzzyEnabled(fuzzySearch) == fuzzySearch # "false"

-----------------------------------------------------------------------------
(* SearchService, first variant (try / catch around the whole search)      *)

extractExperienceLevel1(description) ==
  LET exp == toLowerCase(description)
  IN IF includesAny(exp, {<<"f","r","e","s","h","e","r">>, <<"e","n","t","r","y"," ","l","e","v","e","l">>, <<"0","-","1"," ","y","e","a","r","s">>})
       THEN "entry"
     ELSE IF includesAny(exp, {<<"1","-","3"," ","y","e","a","r","s">>, <<"2","-","4"," ","y","e","a","r","s">>}) THEN "mid"
     ELSE IF includesAny(exp, {<<"3","-","5"," ","y","e","a","r","s">>, <<"4","-","6"," ","y","e","a","r","s">>}) THEN "senior"
     ELSE IF includesAny(exp, {<<"5","+"," ","y","e","a","r","s">>, <<"6","+"," ","y","e","a","r","s">>, <<"s","e","n","i","o","r">>})
       THEN "senior"
     ELSE IF includesAny(exp, {<<"l","e","a","d">>, <<"m","a","n","a","g","e","r">>, <<"a","r","c","h","i","t","e","c","t">>})
       THEN "lead"
     ELSE "mid"

experienceHierarchy == <<"entry", "mid", "senior", "lead">>

\* Array.prototype.indexOf, 0-based, -1 when absent.
indexOf(seq, x) ==
  IF \E i \in DOMAIN seq : seq[i] = x
  THEN (CHOOSE i \in DOMAIN seq : seq[i] = x /\ \A j \in 1..(i - 1) : seq[j] # x) - 1
  ELSE -1

matchesExperienceFilter1(jobExperience, filterExperience) ==
  LET jobIndex == indexOf(experienceHierarchy, jobExperience)
      filterIndex == indexOf(experienceHierarchy, filterExperience)
  IN IF jobIndex = -1 \/ filterIndex = -1 THEN FALSE
     ELSE jobIndex >= filterIndex

popularCompanies1 ==
  { <<"g","o","o","g","l","e">>, <<"m","i","c","r","o","s","o","f","t">>, <<"a","m","a","z","o","n">>, <<"a","p","p","l","e">>, <<"m","e","t","a">>, <<"f","a","c","e","b","o","o","k">>,
    <<"n","e","t","f","l","i","x">>, <<"u","b","e","r">>, <<"a","i","r","b","n","b">>, <<"t","w","i","t","t","e","r">>, <<"l","i","n","k","e","d","i","n">>, <<"s","a","l","e","s","f","o","r","c","e">>,
    <<"o","r","a","c","l","e">>, <<"i","b","m">>, <<"i","n","t","e","l">>, <<"c","i","s","c","o">>, <<"a","d","o","b","e">>, <<"p","a","y","p","a","l">>, <<"s","t","r","i","p","e">>,
    <<"s","h","o","p","i","f","y">>, <<"z","o","o","m">>, <<"s","l","a","c","k">>, <<"d","r","o","p","b","o","x">>, <<"s","p","o","t","i","f","y">>, <<"s","n","a","p","c","h","a","t">>,
    <<"t","c","s">>, <<"i","n","f","o","s","y","s">>, <<"w","i","p","r","o">>, <<"h","c","l">>, <<"t","e","c","h"," ","m","a","h","i","n","d","r","a">>, <<"c","o","g","n","i","z","a","n","t">>,
    <<"a","c","c","e","n","t","u","r","e">>, <<"c","a","p","g","e","m","i","n","i">>, <<"m","i","n","d","t","r","e","e">>, <<"l","a","r","s","e","n"," ","&"," ","t","o","u","b","r","o">>, <<"l","t">>,
    <<"r","e","l","i","a","n","c","e">>, <<"t","a","t","a">>, <<"m","a","h","i","n","d","r","a">>, <<"b","h","a","r","t","i"," ","a","i","r","t","e","l">>, <<"a","i","r","t","e","l">> }

isPopularCompany1(company) ==
  \E popular \in popularCompanies1 :
    includes(toLowerCase(company), toLowerCase(popular))

\* The callback of jobs.filter in applyFilters: "drop" and "keep" are its
\* return values false and true, "throw" a TypeError on a null job or an
\* undefined field.  The four filters run in this order and the first that
\* fails decides.
locationDecision1(job, normalizedFilterLocation, normalizedJobLocation) ==
  IF job.isNull \/ normalizedJobLocation = Undefined THEN "throw"
  ELSE IF ~includes(toLowerCase(normalizedJobLocation),
                    toLowerCase(normalizedFilterLocation))
       THEN "drop" ELSE "pass"

locationFilter1(t, job, filters) ==
  IF truthy(filters.location) /\ truthy(trim(filters.location))
  THEN locationDecision1(job, normalizeLocation(t, filters.location),
                         normalizeLocation(t, job.location))
  ELSE "pass"

experienceFilter1(job, filters) ==
  IF filters.experience # "" /\ filters.experience # "any"
  THEN IF job.isNull \/ job.description = Undefined THEN "throw"
       ELSE IF ~matchesExperienceFilter1(
                  extractExperienceLevel1(job.description), filters.experience)
            THEN "drop" ELSE "pass"
  ELSE "pass"

remoteFilter1(job, filters) ==
  IF filters.remote # "" /\ filters.remote # "all"
  THEN IF job.isNull THEN "throw"
       ELSE IF filters.remote = "remote" /\ ~job.isRemote /\ ~job.isProbablyRemote
         THEN "drop"
       ELSE IF filters.remote = "onsite" /\ (job.isRemote \/ job.isProbablyRemote)
         THEN "drop"
       ELSE "pass"
  ELSE "pass"

companyFilter1(job, filters) ==
  IF truthy(filters.company) /\ truthy(trim(filters.company))
  THEN IF job.isNull \/ job.company = Undefined THEN "throw"
       ELSE IF ~includes(toLowerCase(job.company), toLowerCase(filters.company))
            THEN "drop" ELSE "pass"
  ELSE "pass"

\* A callback that keeps a job as soon as one of the four checks passes.
firstDecision_anyPasses(l, e, r, c) ==
  IF "throw" \in {l, e, r, c} THEN "throw"
  ELSE IF "pass" \in {l, e, r, c} THEN "keep"
  ELSE "drop"

\* The first of the four checks that does not pass decides.
firstDecision(l, e, r, c) ==
  IF l # "pass" THEN l
  ELSE IF e # "pass" THEN e
  ELSE IF r # "pass" THEN r
  ELSE IF c # "pass" THEN c
  ELSE "keep"

filterJob1(t, job, filters) ==
  firstDecision(locationFilter1(t, job, filters), experienceFilter1(job, filters),
                remoteFilter1(job, filters), companyFilter1(job, filters))

\* jobs.filter(callback), given what the callback does on each job.
filterByDecision(jobList, decisions) ==
  IF \E i \in DOMAIN jobList : decisions[i] = "throw" THEN Thrown
  ELSE Returned(filterByFlags(jobList,
                              [i \in DOMAIN jobList |-> decisions[i] = "keep"]))

\* A filter step that returns nothing when no filters object is passed.
applyFilters1_requiresFilters(t, jobList, filters) ==
  IF ~filters.present THEN Returned(<<>>)
  ELSE filterByDecision(
         jobList, [i \in DOMAIN jobList |-> filterJob1(t, jobList[i], filters)])

\* applyFilters(jobs, filters)
applyFilters1(t, jobList, filters) ==
  IF ~filters.present THEN Returned(jobList)
  ELSE filterByDecision(
         jobList, [i \in DOMAIN jobList |-> filterJob1(t, jobList[i], filters)])

\* fuzzyMatch(text, query)
fuzzyMatch1(text, query) ==
  \/ includes(text, query)
  \/ LET words == splitWhitespace(text)
     IN \E w \in DOMAIN words :
          greaterThan(calculateSimilaritySearch1(query, words[w]), 7, 10)

searchableText1(job) ==
  toLowerCase(joinSpace(<<job.title, job.company, job.location, job.description>>
                        \o job.tags))

\* applyTextSearch(jobs, query, fuzzySearch): every term must be found.
applyTextSearch1(jobList, query, fuzzySearch) ==
  IF ~truthy(trim(query)) THEN Returned(jobList)
  ELSE LET nonEmpty(term) == Len(term) > 0
           searchTerms == SelectSeq(splitWhitespace(toLowerCase(query)), nonEmpty)
           matches(job) ==
             \A k \in DOMAIN searchTerms :
               IF fuzzyEnabled(fuzzySearch)
               THEN fuzzyMatch1(searchableText1(job), searchTerms[k])
               ELSE includes(searchableText1(job), searchTerms[k])
       IN IF \E i \in DOMAIN jobList :
               jobList[i].isNull \/ jobList[i].tags = Undefined
          THEN Thrown      \* ...job.tags : undefined is not iterable
          ELSE Returned(SelectSeq(jobList, matches))

\* The callback of jobs.map in calculateRelevanceScores: the score of one
\* job before the cap; match reasons are not modelled.
recencyBoost1(job, p, now) ==
  IF p.boostRecent
  THEN IF getDaysSincePosted(job.createdAt, now) <= 7 THEN 20
       ELSE IF getDaysSincePosted(job.createdAt, now) <= 30 THEN 10
       ELSE 0
  ELSE 0

remoteBoost1(job, p) ==
  IF p.boostRemote /\ (job.isRemote \/ job.isProbablyRemote) THEN 15 ELSE 0

experienceBoost1(job, p) ==
  IF p.boostExperience /\ paramExperience(p) # "" /\ paramExperience(p) # "any"
     /\ matchesExperienceFilter1(extractExperienceLevel1(job.description),
                                 paramExperience(p))
  THEN 15 ELSE 0

\* A query bonus that leaves the title out: only the company match counts.
queryBoost1_companyOnly(job, p) ==
  IF truthy(p.query)
  THEN IF includes(toLowerCase(job.company), toLowerCase(p.query)) THEN 15 ELSE 0
  ELSE 0

queryBoost1(job, p) ==
  IF truthy(p.query)
  THEN (IF includes(toLowerCase(job.title), toLowerCase(p.query)) THEN 25 ELSE 0)
     + (IF includes(toLowerCase(job.company), toLowerCase(p.query)) THEN 15 ELSE 0)
  ELSE 0

locationBoostOf(normalizedFilterLocation, normalizedJobLocation) ==
  IF toLowerCase(normalizedJobLocation) = toLowerCase(normalizedFilterLocation)
  THEN 20
  ELSE IF includes(toLowerCase(normalizedJobLocation),
                   toLowerCase(normalizedFilterLocation))
       THEN 10 ELSE 0

locationBoost1(t, job, p) ==
  IF truthy(paramLocation(p))
  THEN locationBoostOf(normalizeLocation(t, paramLocation(p)),
                       normalizeLocation(t, job.location))
  ELSE 0

popularBoost1(job) == IF isPopularCompany1(job.company) THEN 10 ELSE 0

\* Which jobs make the callback throw: a toLowerCase() on an undefined
\* description, title, company or normalized location (isPopularCompany
\* reads job.company of every job).
scoreThrows1(t, job, p) ==
  \/ job.isNull
  \/ /\ p.boostExperience /\ paramExperience(p) # "" /\ paramExperience(p) # "any"
     /\ job.description = Undefined
  \/ truthy(p.query) /\ (job.title = Undefined \/ job.company = Undefined)
  \/ truthy(paramLocation(p)) /\ normalizeLocation(t, job.location) = Undefined
  \/ job.company = Undefined

\* A score that is returned without the cap.
relevanceScore1_uncapped(t, job, p, now) ==
  50 + recencyBoost1(job, p, now) + remoteBoost1(job, p)
     + experienceBoost1(job, p) + queryBoost1(job, p)
     + locationBoost1(t, job, p) + popularBoost1(job)

\* The score before the cap.
uncappedScore1(t, job, p, now) ==
  50 + recencyBoost1(job, p, now) + remoteBoost1(job, p)
     + experienceBoost1(job, p) + queryBoost1(job, p)
     + locationBoost1(t, job, p) + popularBoost1(job)

\* relevanceScore: Math.min(score, 100)
relevanceScore1(t, job, p, now) == Min(uncappedScore1(t, job, p, now), 100)

\* calculateRelevanceScores(jobs, params)
calculateRelevanceScores1(t, jobList, p, now) ==
  IF \E i \in DOMAIN jobList : scoreThrows1(t, jobList[i], p) THEN Thrown
  ELSE Returned([i \in DOMAIN jobList |->
                  [job |-> jobList[i],
                   relevanceScore |-> relevanceScore1(t, jobList[i], p, now)]])

\* A relevance sort with its operands swapped: lowest score first.
byRelevance_ascending(a, b) == a.relevanceScore - b.relevanceScore

\* searchResults.sort((a, b) => b.relevanceScore - a.relevanceScore)
byRelevance(a, b) == b.relevanceScore - a.relevanceScore

\* The relevance sort of searchJobs, applied to the scored list.
sortByRelevance(results) ==
  stableSort(results,
    [j \in DOMAIN results |->
      [i \in DOMAIN results |-> byRelevance(results[j], results[i])]])

\* ToString(x) of the argument of localeCompare: undefined compares as the
\* text "undefined".
toStringJs(x) == IF x = Undefined THEN <<"u","n","d","e","f","i","n","e","d">> ELSE x

\* The comparator of applySorting, when its receiver is a string.
sortComparison(sortBy, a, b) ==
  CASE sortBy = "created_at" -> a.job.createdAt - b.job.createdAt
    [] sortBy = "job_title" ->
         localeCompare(toStringJs(a.job.title), toStringJs(b.job.title))
    [] sortBy = "company_name" ->
         localeCompare(toStringJs(a.job.company), toStringJs(b.job.company))
    [] OTHER -> b.relevanceScore - a.relevanceScore

\* The field the comparator calls localeCompare on.
receiverField(sortBy, r) ==
  CASE sortBy = "job_title" -> r.job.title
    [] sortBy = "company_name" -> r.job.company
    [] OTHER -> <<>>

\* Which pairs Array.prototype.sort hands to the comparator, and in which
\* order, is left to the engine.  With two or more results every one is
\* compared, and one whose field is undefined makes the comparator throw when
\* the engine passes it as a: the engine "receiver" does, the engine
\* "argument" passes it as b only.
Engines == {"receiver", "argument"}

applySortingThrows1(results, sortBy, engine) ==
  /\ engine = "receiver"
  /\ Len(results) >= 2
  /\ \E i \in DOMAIN results : receiverField(sortBy, results[i]) = Undefined

\* return sortOrder === 'asc' ? comparison : -comparison
inOrder(sortOrder, comparison) ==
  IF sortOrder = "asc" THEN comparison ELSE 0 - comparison

\* applySorting(results, sortBy, sortOrder): sorts the array in place.
applySorting1(results, sortBy, sortOrder) ==
  stableSort(results,
    [j \in DOMAIN results |->
      [i \in DOMAIN results |->
        inOrder(sortOrder, sortComparison(sortBy, results[j], results[i]))]])

\* A pagination that always starts at the first result.
applyPagination1_fromStart(results, limit, offset) ==
  slice(results, 0, IF limit # 0 THEN limit ELSE Len(results))

\* applyPagination(results, limit, offset); 0 stands for an absent limit or
\* offset, which the code cannot tell from 0 either.
applyPagination1(results, limit, offset) ==
  LET start == offset
      end == IF limit # 0 THEN start + limit ELSE Len(results)
  IN slice(results, start, end)

\* What searchJobs resolves to.  A job object is referred to by its id;
\* results is the page of {job, relevanceScore} and sorted the whole ranked
\* list (searchResults) the page was cut from.
scoredIds(list) ==
  [i \in DOMAIN list |->
    [id |-> list[i].job.id, relevanceScore |-> list[i].relevanceScore]]

\* A response whose total counts one job too many.
SearchResponse_totalOffByOne(page, sorted) ==
  [status |-> "resolved",
   jobs |-> [i \in DOMAIN page |-> page[i].job.id],
   total |-> Len(sorted) + 1,
   results |-> scoredIds(page),
   sorted |-> scoredIds(sorted)]

SearchResponse(page, sorted) ==
  [status |-> "resolved",
   jobs |-> [i \in DOMAIN page |-> page[i].job.id],
   total |-> Len(sorted),
   results |-> scoredIds(page),
   sorted |-> scoredIds(sorted)]

\* return { jobs: [], total: 0, results: [] } of the catch block
EmptyResponse ==
  [status |-> "resolved", jobs |-> <<>>, total |-> 0, results |-> <<>>,
   sorted |-> <<>>]

\* A rejected promise: the exception reaches the caller.
RejectedResponse ==
  [status |-> "rejected", jobs |-> <<>>, total |-> 0, results |-> <<>>,
   sorted |-> <<>>]

\* The steps of the try block of searchJobs, each given the outcome of the
\* one before: an exception skips the rest.
textSearchStep1(filtered, p) ==
  IF filtered.thrown THEN Thrown
  ELSE IF truthy(p.query)
       THEN applyTextSearch1(filtered.value, p.query, p.fuzzySearch)
       ELSE filtered

scoreStep1(t, searched, p, now) ==
  IF searched.thrown THEN Thrown
  ELSE calculateRelevanceScores1(t, searched.value, p, now)

sortStep1(ranked, p, engine) ==
  IF p.sortBy # "" /\ p.sortOrder # ""
  THEN IF applySortingThrows1(ranked, p.sortBy, engine) THEN Thrown
       ELSE Returned(applySorting1(ranked, p.sortBy, p.sortOrder))
  ELSE Returned(ranked)

rankStep1(scored, p, engine) ==
  IF scored.thrown THEN Thrown
  ELSE sortStep1(sortByRelevance(scored.value), p, engine)

respond1(searchResults, p) ==
  IF searchResults.thrown THEN Thrown
  ELSE Returned(SearchResponse(
         applyPagination1(searchResults.value, p.limit, p.offset),
         searchResults.value))

\* The body of the try block of searchJobs.
trySearchJobs1(t, jobList, p, now, engine) ==
  respond1(
    rankStep1(
      scoreStep1(t, textSearchStep1(applyFilters1(t, jobList, p.filters), p),
                 p, now),
      p, engine),
    p)

\* catch (error) { return { jobs: [], total: 0, results: [] } }
catchEmpty(attempt) ==
  IF attempt.thrown THEN EmptyResponse ELSE attempt.value

\* searchJobs(jobs, params), first variant.
searchJobs1(t, jobList, p, now, engine) ==
  catchEmpty(trySearchJobs1(t, jobList, p, now, engine))

-----------------------------------------------------------------------------
(* SearchService, second variant (no try / catch; fields guarded by || '') *)

\* x || '' for a string field that may be undefined.
orEmpty(x) == IF truthy(x) THEN x ELSE <<>>

extractExperienceLevel2(description) ==
  LET desc == toLowerCase(description)
  IN IF includesAny(desc, {<<"i","n","t","e","r","n">>, <<"i","n","t","e","r","n","s","h","i","p">>, <<"s","t","u","d","e","n","t">>})
       THEN "intern"
     ELSE IF includesAny(desc, {<<"e","n","t","r","y">>, <<"j","u","n","i","o","r">>, <<"0","-","2">>, <<"1","-","2">>})
       THEN "entry"
     ELSE IF includesAny(desc, {<<"m","i","d">>, <<"i","n","t","e","r","m","e","d","i","a","t","e">>, <<"2","-","5">>, <<"3","-","5">>})
       THEN "mid"
     ELSE IF includesAny(desc, {<<"s","e","n","i","o","r">>, <<"5","+">>, <<"6","+">>, <<"7","+">>})
       THEN "senior"
     ELSE IF includesAny(desc, {<<"l","e","a","d">>, <<"p","r","i","n","c","i","p","a","l">>, <<"m","a","n","a","g","e","r">>, <<"a","r","c","h","i","t","e","c","t">>})
       THEN "lead"
     ELSE "any"

matchesExperienceFilter2(jobExperience, filterExperience) ==
  IF filterExperience = "any" THEN TRUE
  ELSE jobExperience = filterExperience

popularCompanies2 ==
  { <<"g","o","o","g","l","e">>, <<"m","i","c","r","o","s","o","f","t">>, <<"a","m","a","z","o","n">>, <<"a","p","p","l","e">>, <<"m","e","t","a">>, <<"f","a","c","e","b","o","o","k">>,
    <<"n","e","t","f","l","i","x">>, <<"u","b","e","r">>, <<"a","i","r","b","n","b">>, <<"t","w","i","t","t","e","r">>, <<"l","i","n","k","e","d","i","n">>, <<"s","a","l","e","s","f","o","r","c","e">>,
    <<"o","r","a","c","l","e">>, <<"i","b","m">>, <<"i","n","t","e","l">>, <<"a","d","o","b","e">>, <<"c","i","s","c","o">>, <<"v","m","w","a","r","e">>, <<"n","v","i","d","i","a">>,
    <<"t","c","s">>, <<"i","n","f","o","s","y","s">>, <<"w","i","p","r","o">>, <<"h","c","l">>, <<"t","e","c","h"," ","m","a","h","i","n","d","r","a">>, <<"c","o","g","n","i","z","a","n","t">>,
    <<"a","c","c","e","n","t","u","r","e">>, <<"c","a","p","g","e","m","i","n","i">>, <<"d","e","l","o","i","t","t","e">>, <<"e","y">>, <<"p","w","c">>, <<"k","p","m","g">> }

isPopularCompany2(company) ==
  \E popular \in popularCompanies2 : includes(toLowerCase(company), popular)

\* jobLoc.includes(filterLoc) || filterLoc.includes(jobLoc)
containsEither(a, b) == includes(a, b) \/ includes(b, a)

\* jobLocationVariations.some(jobLoc => filterLocationVariations.some(...))
variationsMatch(jobLocationVariations, filterLocationVariations) ==
  \E a \in DOMAIN jobLocationVariations :
    \E b \in DOMAIN filterLocationVariations :
      containsEither(toLowerCase(jobLocationVariations[a]),
                     toLowerCase(filterLocationVariations[b]))

\* The location filter: some variation of the job's location contains, or is
\* contained in, some variation of the normalized filter location.
locationFilter2(t, job, filters) ==
  IF truthy(filters.location) /\ truthy(trim(filters.location))
  THEN variationsMatch(
         getLocationVariations(t, orEmpty(job.location)),
         getLocationVariations(t, normalizeLocation(t, filters.location)))
  ELSE TRUE

experienceFilter2(job, filters) ==
  IF filters.experience # "" /\ filters.experience # "any"
  THEN matchesExperienceFilter2(
         extractExperienceLevel2(orEmpty(job.description)), filters.experience)
  ELSE TRUE

remoteFilter2(job, filters) ==
  IF filters.remote # "" /\ filters.remote # "all"
  THEN LET isRemote == job.isRemote \/ job.isProbablyRemote
       IN /\ ~(filters.remote = "remote" /\ ~isRemote)
          /\ ~(filters.remote = "onsite" /\ isRemote)
  ELSE TRUE

companyFilter2(job, filters) ==
  IF truthy(filters.company) /\ truthy(trim(filters.company))
  THEN includes(toLowerCase(orEmpty(job.company)), toLowerCase(filters.company))
  ELSE TRUE

\* applyFilters(jobs, filters)
applyFilters2(t, jobList, filters) ==
  LET keep(job) == /\ locationFilter2(t, job, filters)
                   /\ experienceFilter2(job, filters)
                   /\ remoteFilter2(job, filters)
                   /\ companyFilter2(job, filters)
  IN SelectSeq(jobList, keep)

\* job.tags?.join(' ') || ''
tagsText2(job) == IF job.tags = Undefined THEN <<>> ELSE joinSpace(job.tags)

searchableText2(job) ==
  toLowerCase(joinSpace(<<orEmpty(job.title), orEmpty(job.company),
                          orEmpty(job.description), orEmpty(job.location),
                          tagsText2(job)>>))

\* The fuzzy branch of applyTextSearch: a term of 3 or more characters is
\* similar (> 0.7) to a word of 3 or more characters of the title, the
\* company or the location.
hasFuzzyMatch2(job, searchTerms) ==
  \E k \in DOMAIN searchTerms :
    /\ Len(searchTerms[k]) >= 3
    /\ \E field \in {job.title, job.company, job.location} :
         /\ truthy(field)
         /\ LET words == splitWhitespace(toLowerCase(field))
            IN \E w \in DOMAIN words :
                 /\ Len(words[w]) >= 3
                 /\ greaterThan(
                      calculateSimilaritySearch2(words[w], searchTerms[k]), 7, 10)

\* applyTextSearch(jobs, query, fuzzySearch)
applyTextSearch2(jobList, query, fuzzySearch) ==
  IF ~truthy(trim(query)) THEN jobList
  ELSE LET queryLower == toLowerCase(query)
           nonEmpty(term) == Len(term) > 0
           searchTerms == SelectSeq(splitWhitespace(queryLower), nonEmpty)
           hasPartialMatch(job) ==
             \E k \in DOMAIN searchTerms :
               Len(searchTerms[k]) >= 2
                 /\ includes(searchableText2(job), searchTerms[k])
           matches(job) ==
             \/ includes(searchableText2(job), queryLower)
             \/ hasPartialMatch(job)
             \/ fuzzyEnabled(fuzzySearch) /\ hasFuzzyMatch2(job, searchTerms)
       IN SelectSeq(jobList, matches)

recencyBoost2(job, p, now) ==
  IF p.boostRecent
  THEN IF getDaysSincePosted(job.createdAt, now) <= 7 THEN 50
       ELSE IF getDaysSincePosted(job.createdAt, now) <= 30 THEN 30
       ELSE IF getDaysSincePosted(job.createdAt, now) <= 90 THEN 10
       ELSE 0
  ELSE 0

remoteBoost2(job, p) ==
  IF p.boostRemote /\ paramRemote(p) = "remote"
     /\ (job.isRemote \/ job.isProbablyRemote)
  THEN 30 ELSE 0

experienceBoost2(job, p) ==
  IF p.boostExperience /\ paramExperience(p) # "" /\ paramExperience(p) # "any"
     /\ matchesExperienceFilter2(
          extractExperienceLevel2(orEmpty(job.description)), paramExperience(p))
  THEN 25 ELSE 0

popularBoost2(job) == IF isPopularCompany2(orEmpty(job.company)) THEN 15 ELSE 0

\* The text relevance boost: +100 for the whole query, +20 for every term of
\* more than one character, +50 for the title, +40 for the company.
queryBoost2(job, p) ==
  IF truthy(p.query)
  THEN LET queryLower == toLowerCase(p.query)
           searchableText ==
             toLowerCase(joinSpace(<<orEmpty(job.title), orEmpty(job.company),
                                     orEmpty(job.description),
                                     orEmpty(job.location)>>))
           searchTerms == splitWhitespace(queryLower)
           partialMatches ==
             Cardinality({k \in DOMAIN searchTerms :
                            Len(searchTerms[k]) > 1
                              /\ includes(searchableText, searchTerms[k])})
       IN (IF includes(searchableText, queryLower) THEN 100 ELSE 0)
        + partialMatches * 20
        + (IF truthy(job.title) /\ includes(toLowerCase(job.title), queryLower)
           THEN 50 ELSE 0)
        + (IF truthy(job.company) /\ includes(toLowerCase(job.company), queryLower)
           THEN 40 ELSE 0)
  ELSE 0

relevanceScore2(job, p, now) ==
  recencyBoost2(job, p, now) + remoteBoost2(job, p) + experienceBoost2(job, p)
    + popularBoost2(job) + queryBoost2(job, p)

\* calculateRelevanceScores(jobs, params); the field the code calls score is
\* called relevanceScore as in the first variant.
calculateRelevanceScores2(jobList, p, now) ==
  [i \in DOMAIN jobList |->
    [job |-> jobList[i], relevanceScore |-> relevanceScore2(jobList[i], p, now)]]

\* The comparator of applySorting, second variant: title and company are
\* guarded by || ''.
sortComparison2(sortBy, a, b) ==
  CASE sortBy = "created_at" -> a.job.createdAt - b.job.createdAt
    [] sortBy = "job_title" ->
         localeCompare(orEmpty(a.job.title), orEmpty(b.job.title))
    [] sortBy = "company_name" ->
         localeCompare(orEmpty(a.job.company), orEmpty(b.job.company))
    [] OTHER -> b.relevanceScore - a.relevanceScore

applySorting2(jobsWithScores, sortBy, sortOrder) ==
  stableSort(jobsWithScores,
    [j \in DOMAIN jobsWithScores |->
      [i \in DOMAIN jobsWithScores |->
        inOrder(sortOrder,
                sortComparison2(sortBy, jobsWithScores[j], jobsWithScores[i]))]])

\* applyPagination, second variant: without a limit the offset is not applied.
applyPagination2(jobsWithScores, limit, offset) ==
  IF limit = 0 THEN jobsWithScores
  ELSE slice(jobsWithScores, offset, offset + limit)

\* The steps of searchJobs, second variant, each given the result of the one
\* before.
filterStep2(t, jobList, p) ==
  IF p.filters.present THEN applyFilters2(t, jobList, p.filters) ELSE jobList

textSearchStep2(filtered, p) ==
  IF truthy(p.query) THEN applyTextSearch2(filtered, p.query, p.fuzzySearch)
  ELSE filtered

sortStep2(ranked, p) ==
  IF p.sortBy # "" /\ p.sortOrder # ""
  THEN applySorting2(ranked, p.sortBy, p.sortOrder)
  ELSE ranked

respond2(searchResults, p) ==
  SearchResponse(applyPagination2(searchResults, p.limit, p.offset),
                 searchResults)

\* The body of searchJobs, second variant.  It returns {jobs, total}; the
\* scored page and the whole ranked list are kept for observation.
searchJobsBody2(t, jobList, p, now) ==
  respond2(
    sortStep2(
      sortByRelevance(
        calculateRelevanceScores2(
          textSearchStep2(filterStep2(t, jobList, p), p), p, now)),
      p),
    p)

\* searchJobs(jobs, params), second variant: there is no try / catch, so an
\* exception rejects the promise.  Missing fields are guarded, but a null
\* element is not: every active filter and the text search read a property of
\* each element, and calculateRelevanceScores reads job.company of every
\* element that is left.
searchJobs2(t, jobList, p, now) ==
  IF \E i \in DOMAIN jobList : jobList[i].isNull THEN RejectedResponse
  ELSE searchJobsBody2(t, jobList, p, now)

Variants == {1, 2}

\* searchJobs of variant v, importing the LocationService t, on the day now
\* and on the given engine.
searchJobs(v, t, jobList, p, now, engine) ==
  IF v = 1 THEN searchJobs1(t, jobList, p, now, engine)
  ELSE searchJobs2(t, jobList, p, now)

-----------------------------------------------------------------------------
(* LocationService: location suggestions                                   *)

\* limit: number = 10, the argument given as <<n>> or, when absent, as <<>>.
limitOrDefault(limit) == IF limit = <<>> THEN 10 ELSE limit[1]

\* getPopularLocations() of the second implementation: a fixed list.
getPopularLocations ==
  << <<"B","a","n","g","a","l","o","r","e">>, <<"M","u","m","b","a","i">>,
     <<"D","e","l","h","i">>, <<"H","y","d","e","r","a","b","a","d">>,
     <<"C","h","e","n","n","a","i">>, <<"P","u","n","e">>,
     <<"G","u","r","u","g","r","a","m">>, <<"N","o","i","d","a">>,
     <<"K","o","l","k","a","t","a">>, <<"A","h","m","e","d","a","b","a","d">>,
     <<"J","a","i","p","u","r">>, <<"L","u","c","k","n","o","w">>,
     <<"C","h","a","n","d","i","g","a","r","h">>, <<"I","n","d","o","r","e">>,
     <<"R","e","m","o","t","e">> >>

\* The test of the first forEach of searchLocations, first implementation:
\* the primary name or some variation contains the query.
entryContains(mapping, normalizedQuery) ==
  \/ includes(toLowerCase(mapping.primary), normalizedQuery)
  \/ \E k \in DOMAIN mapping.variations :
       includes(toLowerCase(mapping.variations[k]), normalizedQuery)

\* The primary names a forEach over the table pushes, given for each entry
\* whether its test holds: each name once (seen), in table order.
pushedPrimaries(mappings, hits) ==
  filterByFlags(
    [i \in DOMAIN mappings |-> mappings[i].primary],
    [i \in DOMAIN mappings |->
       /\ hits[i]
       /\ \A j \in 1..(i - 1) :
            mappings[j].primary = mappings[i].primary => ~hits[j]])

\* The second forEach: the entries whose primary name is similar to the query
\* and was not pushed by the first; an iteration that finds limit results
\* already pushed does nothing.
fuzzyPrimaries(mappings, normalizedQuery, results, limit) ==
  IF Len(results) >= limit THEN <<>>
  ELSE slice(
         pushedPrimaries(
           mappings,
           [i \in DOMAIN mappings |->
              /\ mappings[i].primary \notin Range(results)
              /\ greaterThan(
                   calculateSimilarityLocationA(
                     normalizedQuery, toLowerCase(mappings[i].primary)),
                   6, 10)]),
         0, limit - Len(results))

withFuzzyPrimaries(mappings, normalizedQuery, results, limit) ==
  slice(results \o fuzzyPrimaries(mappings, normalizedQuery, results, limit),
        0, limit)

\* LocationService.searchLocations, first implementation.
searchLocationsA(self, query, limit) ==
  IF ~truthy(query) \/ Len(query) < 2 THEN <<>>
  ELSE withFuzzyPrimaries(
         self.locationMappings, toLowerCase(query),
         pushedPrimaries(
           self.locationMappings,
           [i \in DOMAIN self.locationMappings |->
              entryContains(self.locationMappings[i], toLowerCase(query))]),
         limit)

\* The tests of the second implementation on one name of an entry: exact,
\* starts with, contains, or similar.
nameMatches(nameLower, searchTerm) ==
  \/ nameLower = searchTerm
  \/ startsWith(nameLower, searchTerm)
  \/ includes(nameLower, searchTerm)
  \/ greaterThan(calculateSimilarityLocationB(nameLower, searchTerm), 6, 10)

entryMatches(mapping, searchTerm) ==
  \/ nameMatches(toLowerCase(mapping.primary), searchTerm)
  \/ \E k \in DOMAIN mapping.variations :
       nameMatches(toLowerCase(mapping.variations[k]), searchTerm)

\* The comparator of resultArray.sort: exact match, then starts with, then
\* contains, then alphabetical.
compareSuggestions(aLower, bLower, searchTerm, alphabetical) ==
  IF aLower = searchTerm /\ bLower # searchTerm THEN -1
  ELSE IF bLower = searchTerm /\ aLower # searchTerm THEN 1
  ELSE IF startsWith(aLower, searchTerm) /\ ~startsWith(bLower, searchTerm) THEN -1
  ELSE IF startsWith(bLower, searchTerm) /\ ~startsWith(aLower, searchTerm) THEN 1
  ELSE IF includes(aLower, searchTerm) /\ ~includes(bLower, searchTerm) THEN -1
  ELSE IF includes(bLower, searchTerm) /\ ~includes(aLower, searchTerm) THEN 1
  ELSE alphabetical

sortSuggestions(resultArray, searchTerm) ==
  stableSort(
    resultArray,
    [j \in DOMAIN resultArray |->
      [i \in DOMAIN resultArray |->
        compareSuggestions(toLowerCase(resultArray[j]), toLowerCase(resultArray[i]),
                           searchTerm,
                           localeCompare(resultArray[j], resultArray[i]))]])

\* LocationService.searchLocations, second implementation.
searchLocationsB(self, query, limit) ==
  IF ~truthy(query) \/ Len(trim(query)) = 0
  THEN slice(getPopularLocations, 0, limit)
  ELSE slice(
         sortSuggestions(
           pushedPrimaries(
             self.locationMappings,
             [i \in DOMAIN self.locationMappings |->
                entryMatches(self.locationMappings[i],
                             trim(toLowerCase(query)))]),
           trim(toLowerCase(query))),
         0, limit)

searchLocations(self, query, limit) ==
  IF self.impl = "A" THEN searchLocationsA(self, query, limitOrDefault(limit))
  ELSE searchLocationsB(self, query, limitOrDefault(limit))

-----------------------------------------------------------------------------
(* Bounds and inputs                                                       *)

\* The day of the call (new Date()); job dates are given relative to it.
Now == 100

MaxPad == 1       \* white space added around a location input
MaxStrLen == 3    \* length of the strings the similarity scorers are given
MaxJobs == 3      \* length of the caller's job array
MaxLimit == 2     \* largest limit and offset of a page

\* Every name the tables register, and some they do not.
RegisteredNames(t) ==
  UNION {{LocationService(t).locationMappings[i].primary} \cup Range(LocationService(t).locationMappings[i].variations) :
           i \in DOMAIN LocationService(t).locationMappings}

UnknownNames == {<<>>, <<"P","a","r","i","s">>, <<"N","e","w"," ","Y","o","r","k">>, <<"p","u","n","e"," ","c","i","t","y">>, <<"c","o","n","s","t","r","u","c","t","o","r">>}

spaces(n) == [i \in 1..n |-> " "]

LocationInputs ==
  {spaces(l) \o s \o spaces(r) :
     s \in UNION {{n, toLowerCase(n), toUpperCase(n)} :
                    n \in RegisteredNames("A") \cup RegisteredNames("B")
                            \cup UnknownNames},
     l \in 0..MaxPad, r \in 0..MaxPad}

\* What a user typed into the location box, and the limit argument: absent
\* or a number.
SuggestionQueries ==
  {<<>>, <<" ">>, <<"B","L","R">>, <<"b","l","r">>, <<"P","u","n","e">>, <<" ","P","u","n","e">>,
   <<"p","u","n","e">>, <<"D","e","l","h","i">>, <<"P","a","r","i","s">>, <<"N","C","R">>,
   <<"d","e">>, <<"a","n">>, <<"c","h">>, <<"p","u","r">>, <<"g","o","a">>, <<"d","e","l","h","y">>}
LimitArgs == {<<>>} \cup {<<n>> : n \in 0..MaxLimit}

Alphabet == {"a", "b"}
Strings == UNION {[1..n -> Alphabet] : n \in 0..MaxStrLen}

\* The elements the caller's array is drawn from: three complete records, one
\* that lacks title, description and tags, and a null element.
Job(id, title, company, loc, description, tags, isRemote, age) ==
  [id |-> id, isNull |-> FALSE, title |-> title, company |-> company,
   location |-> loc, description |-> description, tags |-> tags,
   isRemote |-> isRemote, isProbablyRemote |-> FALSE, createdAt |-> Now - age]

NullJob ==
  [id |-> 0, isNull |-> TRUE, title |-> Undefined, company |-> Undefined,
   location |-> Undefined, description |-> Undefined, tags |-> Undefined,
   isRemote |-> FALSE, isProbablyRemote |-> FALSE, createdAt |-> Now]

JobPool ==
  { Job(1, <<"R","e","a","c","t"," ","D","e","v">>, <<"G","o","o","g","l","e">>, <<"B","a","n","g","a","l","o","r","e">>, <<"s","e","n","i","o","r">>, <<<<"j","s">>>>, FALSE, 3),
    Job(2, <<"I","n","t","e","r","n">>, <<"B","e","t","a">>, <<"M","u","m","b","a","i">>, <<"f","r","e","s","h","e","r"," ","i","n","t","e","r","n">>, <<>>, TRUE, 60),
    Job(3, <<"J","a","v","a"," ","L","e","a","d">>, <<"T","a","t","a">>, <<"D","e","l","h","i">>, <<"l","e","a","d">>, <<<<"j","a","v","a">>>>, FALSE, 20),
    Job(4, Undefined, <<"Z","e","d">>, <<"P","u","n","e">>, Undefined, Undefined, FALSE, 200),
    NullJob }

Filters(loc, experience, remote, company) ==
  [present |-> TRUE, location |-> loc, experience |-> experience,
   remote |-> remote, company |-> company]

NoFilters ==
  [present |-> FALSE, location |-> Undefined, experience |-> "",
   remote |-> "", company |-> Undefined]

NoConstraint == Filters(Undefined, "", "", Undefined)

Params(query, filters, boosts, fuzzySearch, sortBy, sortOrder, limit, offset) ==
  [query |-> query, filters |-> filters,
   boostRecent |-> boosts[1], boostRemote |-> boosts[2],
   boostExperience |-> boosts[3], fuzzySearch |-> fuzzySearch,
   sortBy |-> sortBy, sortOrder |-> sortOrder, limit |-> limit, offset |-> offset]

NoBoost == <<FALSE, FALSE, FALSE>>
AllBoost == <<TRUE, TRUE, TRUE>>

FilterLocations ==
  {<<"B","a","n","g","a","l","o","r","e">>, <<"B","e","n","g","a","l","u","r","u">>, <<"D","e","l","h","i">>, <<"G","u","r","g","a","o","n">>, <<"G","u","r","u","g","r","a","m">>, <<"M","u","m","b","a","i">>,
   <<"P","u","n","e",","," ","M","a","h","a","r","a","s","h","t","r","a">>, <<" ">>}
Queries == {<<"d","e","v">>, <<"r","e","a","c","t">>, <<"r","e","a","c"," ","d","e","v">>, <<"j","a","v","a"," ","l","e","a","d">>, <<"j","a","v","a"," ","d","e","v">>, <<" ">>}
Experiences == {"", "any", "entry", "senior", "lead", "intern", "expert"}
SortFields == {"", "created_at", "job_title", "company_name", "salary"}
SortOrders == {"", "asc", "desc"}

\* The parameter records of a call: each family varies some parameters and
\* leaves the others absent.
LocationParams ==
  {Params(q, Filters(l, "", "", Undefined), b, "undefined", "", "", 0, 0) :
     q \in {Undefined, <<"d","e","v">>}, l \in FilterLocations, b \in {NoBoost, AllBoost}}

FilterParams ==
  {Params(Undefined, Filters(Undefined, e, r, Undefined), b, "undefined", "", "", 0, 0) :
     e \in Experiences, r \in {"", "remote", "onsite"}, b \in {NoBoost, AllBoost}}
  \cup {Params(Undefined, Filters(Undefined, "", "", c), NoBoost, "undefined", "", "", 0, 0) :
          c \in {<<"a">>, <<"G","O","O">>, <<" ">>}}
  \cup {Params(Undefined, Filters(<<"D","e","l","h","i">>, "lead", "onsite", c),
                NoBoost, "undefined", "", "", 0, 0) :
          c \in {<<"a">>, <<"G","O","O">>}}

QueryParams ==
  {Params(q, NoFilters, b, z, "", "", 0, 0) :
     q \in Queries, b \in {NoBoost, AllBoost}, z \in {"undefined", "true", "false"}}
  \cup {Params(<<>>, NoConstraint, NoBoost, "undefined", "", "", 0, 0)}

SortParams ==
  {Params(q, NoFilters, b, "undefined", s, o, 0, 0) :
     q \in {Undefined, <<"d","e","v">>}, b \in {NoBoost, <<TRUE, FALSE, FALSE>>},
     s \in SortFields, o \in SortOrders}

PageParams ==
  {Params(Undefined, NoFilters, b, "undefined", s, "asc", l, o) :
     b \in {NoBoost, <<TRUE, FALSE, FALSE>>},
     s \in {"", "job_title"}, l \in 0..MaxLimit, o \in 0..MaxLimit}

ParamSet ==
  LocationParams \cup FilterParams \cup QueryParams \cup SortParams \cup PageParams

-----------------------------------------------------------------------------
(* The callers                                                             *)

LocIdle ==
  /\ location = <<>> /\ locTable = "A"
  /\ normalized = <<>> /\ renormalized = <<>> /\ variations = <<>>
  /\ limitArg = <<>> /\ suggestions = <<>>
SimIdle ==
  /\ str1 = <<>> /\ str2 = <<>> /\ simImpl = "Search2"
  /\ distance = [ab |-> 0, ba |-> 0, aa |-> 0] /\ similarity = ratio(1, 1)
BoxIdle ==
  /\ searchQuery = <<>> /\ timers = <<>> /\ armed = FALSE /\ unchangedFor = 0
  /\ suggestionList = <<>> /\ showSuggestions = FALSE
  /\ recentSearches = <<>> /\ storedRecent = Null /\ lastSearched = Null
ContactsIdle ==
  /\ emailLogs = {} /\ followupLogs = {} /\ repliesKpi = {} /\ allContacts = <<>>
  /\ clockShift = 0 /\ contactsNeedingFollowup = <<>> /\ pending = 0
\* Before the handler is called: no request, nothing awaited yet.
NoBody ==
  [isNull |-> FALSE, supabase_link |-> Undefined, r_name |-> Undefined,
   c_name |-> Undefined]
NoAuthResult == [user |-> Null, error |-> Null, threw |-> FALSE]
NoAwsResponse == [ok |-> FALSE, status |-> 0, threw |-> FALSE, read |-> "none"]
HandlerIdle ==
  /\ req = [method |-> "GET", authorization |-> Undefined, body |-> NoBody]
  /\ handlerPc = "idle" /\ user = NoAuthResult /\ awsResponse = NoAwsResponse
  /\ responses = <<>> /\ upstream = <<>>
OtherIdle == BoxIdle /\ ContactsIdle /\ HandlerIdle
SearchIdle ==
  /\ jobs = <<>> /\ impl = [variant |-> 1, table |-> "A", engine |-> "receiver"]
  /\ params = Params(Undefined, NoFilters, NoBoost, "undefined", "", "", 0, 0)
  /\ result = EmptyResponse

\* What the operations write.  The lookup maps and the mapping tables are
\* assigned by the static initializers only: normalizeLocation reads the map
\* (Map.get, or a property read), getLocationVariations builds a new array.
normalizeLocationWrites(self, loc) == {}

\* searchJobs reaches the tables through normalizeLocation (first variant) and
\* getLocationVariations (second variant), for the filter location and for
\* the location of each job.
searchJobsWrites(v, self, jobList, p) ==
  IF truthy(paramLocation(p))
  THEN normalizeLocationWrites(self, paramLocation(p))
         \cup UNION {normalizeLocationWrites(self, jobList[i].location) :
                       i \in DOMAIN jobList}
  ELSE {}

\* An in-place sort of the array the caller passed.
sortedInPlace_callerArray(p) == {"jobs"}

\* The array objects sorted in place by one searchJobs call.  "jobs" is the
\* caller's array; [...jobs], filter and map each create a new array, while
\* applyFilters without a filters object and applyTextSearch with a blank
\* query return the array they were given.  Both sorts act on the array of
\* scored results that map returned.
sortedInPlace(p) ==
  LET filteredJobs == "spread"
      afterFilters == IF p.filters.present THEN "filtered" ELSE filteredJobs
      afterTextSearch ==
        IF truthy(p.query) /\ truthy(trim(p.query)) THEN "matched"
        ELSE afterFilters
      scoredFrom(array) == "scored"
  IN {scoredFrom(afterTextSearch)}

\* The caller's array after the call: in the order of the ranked list if it
\* was sorted in place, as it was otherwise.
callerArrayAfter(jobList, p, sorted) ==
  IF "jobs" \in sortedInPlace(p) /\ Len(sorted) = Len(jobList)
  THEN [i \in DOMAIN sorted |->
         jobList[CHOOSE k \in DOMAIN jobList : jobList[k].id = sorted[i].id]]
  ELSE jobList

\* A caller normalizes a location name ...
NormalizeLocation(t) ==
  /\ pc = "input"
  /\ locTable' = t
  /\ normalized' = normalizeLocation(LocationService(t), location)
  /\ tableWrites' =
       tableWrites \cup normalizeLocationWrites(LocationService(t), location)
  /\ pc' = "normalized"
  /\ UNCHANGED <<location, renormalized, variations, limitArg, suggestions,
                 simVars, searchVars>>
  /\ UNCHANGED otherVars

\* ... and normalizes the name it got back.
NormalizeAgain ==
  /\ pc = "normalized"
  /\ renormalized' = normalizeLocation(LocationService(locTable), normalized)
  /\ tableWrites' =
       tableWrites
         \cup normalizeLocationWrites(LocationService(locTable), normalized)
  /\ pc' = "renormalized"
  /\ UNCHANGED <<location, locTable, normalized, variations, limitArg,
                 suggestions, simVars, searchVars>>
  /\ UNCHANGED otherVars

\* A caller asks for the variations of a location name.
GetLocationVariations(t) ==
  /\ pc = "input"
  /\ locTable' = t
  /\ variations' = getLocationVariations(LocationService(t), location)
  /\ tableWrites' =
       tableWrites \cup normalizeLocationWrites(LocationService(t), location)
  /\ pc' = "variations"
  /\ UNCHANGED <<location, normalized, renormalized, limitArg, suggestions,
                 simVars, searchVars>>
  /\ UNCHANGED otherVars

\* A caller asks for suggestions for what was typed so far.
SearchLocations(t) ==
  /\ pc = "input"
  /\ location \in SuggestionQueries
  /\ locTable' = t
  /\ \E limit \in LimitArgs :
       /\ limitArg' = limit
       /\ suggestions' = searchLocations(LocationService(t), location, limit)
  /\ UNCHANGED tableWrites
  /\ pc' = "suggestions"
  /\ UNCHANGED <<location, normalized, renormalized, variations,
                 simVars, searchVars>>
  /\ UNCHANGED otherVars

InitLoc ==
  /\ pc = "input"
  /\ location \in LocationInputs \cup SuggestionQueries
  /\ locTable = "A" /\ normalized = <<>> /\ renormalized = <<>>
  /\ variations = <<>> /\ limitArg = <<>> /\ suggestions = <<>>
  /\ tableWrites = {}
  /\ SimIdle /\ SearchIdle
  /\ OtherIdle

NextLoc ==
  \/ \E t \in Tables : NormalizeLocation(t)
  \/ NormalizeAgain
  \/ \E t \in Tables : GetLocationVariations(t)
  \/ \E t \in Tables : SearchLocations(t)

SpecLoc == InitLoc /\ [][NextLoc]_vars

\* A caller asks one implementation for the edit distance of two strings, in
\* both argument orders and of the first string with itself ...
LevenshteinDistance(i) ==
  /\ pc = "strings"
  /\ simImpl' = i
  /\ distance' = [ab |-> editDistance(i, str1, str2),
                  ba |-> editDistance(i, str2, str1),
                  aa |-> editDistance(i, str1, str1)]
  /\ pc' = "distance"
  /\ UNCHANGED <<str1, str2, similarity, locVars, searchVars, tableWrites>>
  /\ UNCHANGED otherVars

\* ... or for their similarity.
CalculateSimilarity(i) ==
  /\ pc = "strings"
  /\ simImpl' = i
  /\ similarity' = calculateSimilarity(i, str1, str2)
  /\ pc' = "similarity"
  /\ UNCHANGED <<str1, str2, distance, locVars, searchVars, tableWrites>>
  /\ UNCHANGED otherVars

InitSim ==
  /\ pc = "strings"
  /\ str1 \in Strings /\ str2 \in Strings
  /\ simImpl = "Search2"
  /\ distance = [ab |-> 0, ba |-> 0, aa |-> 0] /\ similarity = ratio(1, 1)
  /\ tableWrites = {}
  /\ LocIdle /\ SearchIdle
  /\ OtherIdle

NextSim ==
  \/ \E i \in SimImpls : LevenshteinDistance(i)
  \/ \E i \in SimImpls : CalculateSimilarity(i)

SpecSim == InitSim /\ [][NextSim]_vars

\* The job array grows by one fetched job ...
AddJob(job) ==
  /\ pc = "jobs"
  /\ Len(jobs) < MaxJobs
  /\ \A i \in DOMAIN jobs : jobs[i].id # job.id
  /\ jobs' = Append(jobs, job)
  /\ UNCHANGED <<pc, params, impl, result, locVars, simVars, tableWrites>>
  /\ UNCHANGED otherVars

\* The engines that can differ on a call: only the first variant's sort by
\* title or company calls a method of a field that may be undefined.
EnginesFor(v, p) ==
  IF v = 1 /\ p.sortBy \in {"job_title", "company_name"} /\ p.sortOrder # ""
  THEN Engines ELSE {"receiver"}

\* ... and a caller awaits SearchService.searchJobs(jobs, params).
SearchJobs(v, t) ==
  /\ pc = "jobs"
  /\ \E p \in ParamSet :
       \E engine \in EnginesFor(v, p) :
         /\ params' = p
         /\ result' = searchJobs(v, LocationService(t), jobs, p, Now, engine)
         /\ impl' = [variant |-> v, table |-> t, engine |-> engine]
         /\ jobs' = callerArrayAfter(
                      jobs, p,
                      searchJobs(v, LocationService(t), jobs, p, Now, engine).sorted)
         /\ tableWrites' =
              tableWrites \cup searchJobsWrites(v, LocationService(t), jobs, p)
  /\ pc' = "searched"
  /\ UNCHANGED <<locVars, simVars>>
  /\ UNCHANGED otherVars

Init ==
  /\ pc = "jobs"
  /\ tableWrites = {}
  /\ SearchIdle
  /\ LocIdle /\ SimIdle
  /\ OtherIdle

Next ==
  \/ \E job \in JobPool : AddJob(job)
  \/ \E v \in Variants, t \in Tables : SearchJobs(v, t)

Spec == Init /\ [][Next]_vars


-----------------------------------------------------------------------------
(* EnhancedJobSearch: debounced suggestions and recent searches            *)
(*                                                                         *)
(* The component is rendered with an empty jobs array, so that the search  *)
(* suggestions come from LocationService alone and trendingTerms is empty. *)
(* A render, the cleanup of the previous effect and the new effect are one *)
(* step; time passes in units of 100 ms.                                   *)

\* setTimeout(generateSuggestions, 300)
DebounceDelay == 3

\* Array.from(new Set(seq)): the first occurrence of each element.
dedupe(seq) ==
  filterByFlags(seq, [i \in DOMAIN seq |-> \A j \in 1..(i - 1) : seq[j] # seq[i]])

\* SearchService.getSearchSuggestions(jobs, query, limit) for jobs = []: the
\* popular terms of no jobs, or the location suggestions.
getSearchSuggestions(t, query, limit) ==
  IF ~truthy(query) \/ Len(trim(query)) < 2 THEN <<>>
  ELSE slice(slice(dedupe(searchLocations(LocationService(t), query, <<3>>)),
                   0, limit),
             0, limit)

\* What generateSuggestions passes to setSuggestions for a query that is not
\* blank.
allSuggestions(t, query) ==
  slice(dedupe(getSearchSuggestions(t, query, 5)
                 \o searchLocations(LocationService(t), query, <<5>>)),
        0, 8)

\* The strings a user types into the box, and those that can become the
\* query: the typed ones and the suggestions they lead to.
TypedQueries == {<<>>, <<" ">>, <<"p","u","n","e">>, <<"q","a">>}
BoxTerms ==
  TypedQueries \cup {<<"P","u","n","e">>, <<"u","x">>, <<"h","r">>, <<"z","z">>, <<"j","s">>}

suggestionsFor == [t \in Tables |-> [q \in BoxTerms |-> allSuggestions(t, q)]]

\* An effect without its cleanup: the previous timer stays pending.
rearmed_noCleanup(timerList, latestPending, query) ==
  Append(timerList, [query |-> query, elapsed |-> 0])

\* The effect on [searchQuery, jobs]: the cleanup of the previous run clears
\* its timer (a no-op when that one has fired), then a new timer is set whose
\* closure holds the query of this render.
rearmed(timerList, latestPending, query) ==
  Append(IF latestPending THEN SubSeq(timerList, 1, Len(timerList) - 1) ELSE timerList,
         [query |-> query, elapsed |-> 0])

\* JSON.stringify of an array of strings that hold no quote, backslash or
\* control character: ["a","b"].
RECURSIVE joinComma(_)
joinComma(parts) ==
  IF Len(parts) = 0 THEN <<>>
  ELSE IF Len(parts) = 1 THEN parts[1]
  ELSE parts[1] \o <<",">> \o joinComma(Tail(parts))

stringify(list) ==
  <<"[">> \o joinComma([i \in DOMAIN list |-> <<"\"">> \o list[i] \o <<"\"">>])
          \o <<"]">>

\* JSON.parse of such a text: the strings between the quotes, in order.
RECURSIVE parseStrings(_, _, _, _, _)
parseStrings(text, i, inString, item, acc) ==
  IF i > Len(text) THEN acc
  ELSE IF inString
    THEN IF text[i] = "\""
         THEN parseStrings(text, i + 1, FALSE, <<>>, Append(acc, item))
         ELSE parseStrings(text, i + 1, TRUE, Append(item, text[i]), acc)
  ELSE parseStrings(text, i + 1, text[i] = "\"", <<>>, acc)

parse(text) == parseStrings(text, 1, FALSE, <<>>, <<>>)

\* The effect that loads the recent searches: nothing when no item is stored.
loadedRecentSearches(saved) ==
  IF saved = Null \/ ~truthy(saved) THEN <<>> ELSE parse(saved)

\* A newRecent that does not filter the earlier occurrence of the term.
newRecent_keepsDuplicate(term, recent) == slice(<<term>> \o recent, 0, 5)

\* [term, ...recentSearches.filter(s => s !== term)].slice(0, 5)
newRecent(term, recent) ==
  slice(<<term>> \o filterByFlags(recent, [i \in DOMAIN recent |-> recent[i] # term]),
        0, 5)

\* recentSearches.filter(s => s !== search)
withoutSearch(recent, search) ==
  filterByFlags(recent, [i \in DOMAIN recent |-> recent[i] # search])

\* What localStorage holds when the component mounts: nothing, or the list
\* an earlier visit stored.
StoredAtMount == {Null, stringify(<<>>), stringify(<< <<"q","a">> >>)}
StoredHistories ==
  StoredAtMount
    \cup {stringify(<< <<"u","x">>, <<"h","r">>, <<"z","z">>, <<"q","a">>, <<"j","s">> >>)}

\* The user types, clears the box, or the parent sets another query.
ChangeQuery(q) ==
  /\ pc = "box"
  /\ q # searchQuery
  /\ searchQuery' = q
  /\ timers' = rearmed(timers, armed, q)
  /\ armed' = TRUE
  /\ unchangedFor' = 0
  /\ UNCHANGED <<pc, suggestionList, showSuggestions, recentSearches,
                 storedRecent, lastSearched>>
  /\ UNCHANGED <<locVars, simVars, searchVars, tableWrites, contactVars,
                 handlerVars>>

\* The parent passes another (empty) jobs array.
JobsChanged ==
  /\ pc = "box"
  /\ timers' = rearmed(timers, armed, searchQuery)
  /\ armed' = TRUE
  /\ UNCHANGED <<pc, searchQuery, unchangedFor, suggestionList, showSuggestions,
                 recentSearches, storedRecent, lastSearched>>
  /\ UNCHANGED <<locVars, simVars, searchVars, tableWrites, contactVars,
                 handlerVars>>

\* 100 ms pass; a timer that is due may still be waiting for the event loop.
Tick ==
  /\ pc = "box"
  /\ \/ unchangedFor < DebounceDelay
     \/ \E i \in DOMAIN timers : timers[i].elapsed < DebounceDelay
  /\ timers' = [i \in DOMAIN timers |->
                  [timers[i] EXCEPT !.elapsed = Min(@ + 1, DebounceDelay)]]
  /\ unchangedFor' = Min(unchangedFor + 1, DebounceDelay)
  /\ UNCHANGED <<pc, searchQuery, armed, suggestionList, showSuggestions,
                 recentSearches, storedRecent, lastSearched>>
  /\ UNCHANGED <<locVars, simVars, searchVars, tableWrites, contactVars,
                 handlerVars>>

\* A due timer fires and generateSuggestions runs to its end with the query
\* of its closure: its awaits resolve without leaving the microtask queue.
TimerFires(i, t) ==
  /\ pc = "box"
  /\ i \in DOMAIN timers
  /\ timers[i].elapsed >= DebounceDelay
  /\ timers' = SubSeq(timers, 1, i - 1) \o SubSeq(timers, i + 1, Len(timers))
  /\ armed' = (armed /\ i # Len(timers))
  /\ IF ~truthy(trim(timers[i].query))
     THEN suggestionList' = <<>> /\ showSuggestions' = FALSE
     ELSE /\ suggestionList' = suggestionsFor[t][timers[i].query]
          /\ showSuggestions' = TRUE
  /\ UNCHANGED <<pc, searchQuery, unchangedFor, recentSearches, storedRecent,
                 lastSearched>>
  /\ UNCHANGED <<locVars, simVars, searchVars, tableWrites, contactVars,
                 handlerVars>>

\* Enter is pressed: handleSearch.
HandleSearch ==
  /\ pc = "box"
  /\ IF truthy(trim(searchQuery))
     THEN /\ recentSearches' = newRecent(searchQuery, recentSearches)
          /\ storedRecent' = stringify(newRecent(searchQuery, recentSearches))
          /\ lastSearched' = searchQuery
     ELSE UNCHANGED <<recentSearches, storedRecent, lastSearched>>
  /\ showSuggestions' = FALSE
  /\ UNCHANGED <<pc, searchQuery, timers, armed, unchangedFor, suggestionList>>
  /\ UNCHANGED <<locVars, simVars, searchVars, tableWrites, contactVars,
                 handlerVars>>

\* An entry of the dropdown is clicked: handleSuggestionClick, and the effect
\* when the query changed with it.
HandleSuggestionClick(suggestion) ==
  /\ pc = "box"
  /\ showSuggestions
  /\ suggestion \in Range(recentSearches) \cup Range(suggestionList)
  /\ searchQuery' = suggestion
  /\ IF suggestion # searchQuery
     THEN /\ timers' = rearmed(timers, armed, suggestion)
          /\ armed' = TRUE
          /\ unchangedFor' = 0
     ELSE UNCHANGED <<timers, armed, unchangedFor>>
  /\ showSuggestions' = FALSE
  /\ recentSearches' = newRecent(suggestion, recentSearches)
  /\ storedRecent' = stringify(newRecent(suggestion, recentSearches))
  /\ lastSearched' = suggestion
  /\ UNCHANGED <<pc, suggestionList>>
  /\ UNCHANGED <<locVars, simVars, searchVars, tableWrites, contactVars,
                 handlerVars>>

\* The x of a recent search is clicked: removeRecentSearch.
RemoveRecentSearch(search) ==
  /\ pc = "box"
  /\ showSuggestions
  /\ search \in Range(recentSearches)
  /\ recentSearches' = withoutSearch(recentSearches, search)
  /\ storedRecent' = stringify(withoutSearch(recentSearches, search))
  /\ UNCHANGED <<pc, searchQuery, timers, armed, unchangedFor, suggestionList,
                 showSuggestions, lastSearched>>
  /\ UNCHANGED <<locVars, simVars, searchVars, tableWrites, contactVars,
                 handlerVars>>

\* The input gets the focus, or the mouse is pressed outside the component.
Focus ==
  /\ pc = "box"
  /\ truthy(searchQuery)
  /\ showSuggestions' = TRUE
  /\ UNCHANGED <<pc, searchQuery, timers, armed, unchangedFor, suggestionList,
                 recentSearches, storedRecent, lastSearched>>
  /\ UNCHANGED <<locVars, simVars, searchVars, tableWrites, contactVars,
                 handlerVars>>

ClickOutside ==
  /\ pc = "box"
  /\ showSuggestions' = FALSE
  /\ UNCHANGED <<pc, searchQuery, timers, armed, unchangedFor, suggestionList,
                 recentSearches, storedRecent, lastSearched>>
  /\ UNCHANGED <<locVars, simVars, searchVars, tableWrites, contactVars,
                 handlerVars>>

\* The component after its first render and its mount effects: the recent
\* searches are loaded and the first debounce timer is set.
InitBox ==
  /\ pc = "box"
  /\ searchQuery = <<>>
  /\ timers = rearmed(<<>>, FALSE, <<>>) /\ armed = TRUE
  /\ unchangedFor = 0
  /\ suggestionList = <<>> /\ showSuggestions = FALSE
  /\ storedRecent \in StoredAtMount
  /\ recentSearches = loadedRecentSearches(storedRecent)
  /\ lastSearched = Null
  /\ tableWrites = {}
  /\ LocIdle /\ SimIdle /\ SearchIdle /\ ContactsIdle /\ HandlerIdle

NextBox ==
  \/ \E q \in TypedQueries : ChangeQuery(q)
  \/ JobsChanged
  \/ Tick
  \/ \E i \in 1..2, t \in Tables : TimerFires(i, t)
  \/ HandleSearch
  \/ \E s \in BoxTerms : HandleSuggestionClick(s)
  \/ \E s \in BoxTerms : RemoveRecentSearch(s)
  \/ Focus
  \/ ClickOutside

SpecBox == InitBox /\ [][NextBox]_vars

\* The same component with a longer stored history, used faster than the
\* debounce delay: no timer becomes due.
InitRecent ==
  /\ pc = "box"
  /\ searchQuery = <<>>
  /\ timers = rearmed(<<>>, FALSE, <<>>) /\ armed = TRUE
  /\ unchangedFor = 0
  /\ suggestionList = <<>> /\ showSuggestions = FALSE
  /\ storedRecent \in StoredHistories
  /\ recentSearches = loadedRecentSearches(storedRecent)
  /\ lastSearched = Null
  /\ tableWrites = {}
  /\ LocIdle /\ SimIdle /\ SearchIdle /\ ContactsIdle /\ HandlerIdle

NextRecent ==
  \/ \E q \in TypedQueries : ChangeQuery(q)
  \/ HandleSearch
  \/ \E s \in BoxTerms : HandleSuggestionClick(s)
  \/ \E s \in BoxTerms : RemoveRecentSearch(s)
  \/ Focus
  \/ ClickOutside

SpecRecent == InitRecent /\ [][NextRecent]_vars

-----------------------------------------------------------------------------
(* ContactsService.getContactsWithSentEmails and                           *)
(* DashboardService.getFollowupsNeededCount                                *)
(*                                                                         *)
(* Time is counted in half hours.  A row is [to, sentAt] with to a string  *)
(* or Null; the user is signed in and the three queries succeed.           *)

\* new Date() at the call.
CallTime == 200

\* twentyFourHoursAgo.setHours(twentyFourHoursAgo.getHours() - 24): the same
\* local wall-clock time one day earlier, which is 24 hours ago plus the
\* change of the UTC offset since (one hour on the day of a daylight-saving
\* switch, none on other days and in zones without it).
twentyFourHoursAgo(now, shift) == now - 2 * 24 + shift

\* mostRecentCommunication < twentyFourHoursAgo
olderThan(date, now, shift) == date < twentyFourHoursAgo(now, shift)

\* The rows a forEach with `if (email.to)` looks at.
rowsWithTo(rows) == {r \in rows : r.to # Null /\ truthy(r.to)}

\* The Map from lowercased recipient to the latest date of its rows
\* (emailsByRecipient, followupsByRecipient, lastCommByRecipient).
latestByRecipient(rows) ==
  [a \in {toLowerCase(r.to) : r \in rowsWithTo(rows)} |->
     CHOOSE d \in {r.sentAt : r \in rowsWithTo(rows)} :
       /\ \E r \in rowsWithTo(rows) : toLowerCase(r.to) = a /\ r.sentAt = d
       /\ \A r \in rowsWithTo(rows) : toLowerCase(r.to) = a => r.sentAt <= d]

\* The keys of such a Map in insertion order, the rows having been fetched
\* with order('sent_at', {ascending: false}): by latest date, newest first.
keysInOrder(latest) ==
  CHOOSE s \in [1..Cardinality(DOMAIN latest) -> DOMAIN latest] :
    \A i, j \in DOMAIN s :
      i < j => s[i] # s[j] /\ latest[s[i]] >= latest[s[j]]

\* new Set(replies.map(r => String(r.to).toLowerCase()))
repliedContactsSet(replies) == {toLowerCase(x) : x \in replies}

\* lastFollowupDate && lastFollowupDate > lastEmailDate ? lastFollowupDate
\* : lastEmailDate
mostRecentCommunication(emailAddress, lastEmailDate, followupsByRecipient) ==
  IF emailAddress \in DOMAIN followupsByRecipient
     /\ followupsByRecipient[emailAddress] > lastEmailDate
  THEN followupsByRecipient[emailAddress]
  ELSE lastEmailDate

\* contactsByEmail.get(emailAddress): the last contact with that lowercased
\* email, or a generated entry for an address that is no contact.
contactEntry(contacts, emailAddress, date) ==
  IF \E k \in DOMAIN contacts : toLowerCase(contacts[k]) = emailAddress
  THEN [email |-> contacts[CHOOSE k \in DOMAIN contacts :
                             /\ toLowerCase(contacts[k]) = emailAddress
                             /\ \A m \in DOMAIN contacts :
                                  toLowerCase(contacts[m]) = emailAddress => m <= k],
        email_sent_on |-> date, isContact |-> TRUE]
  ELSE [email |-> emailAddress, email_sent_on |-> date, isContact |-> FALSE]

\* contactsNeedingFollowup.sort((a, b) => a.email_sent_on - b.email_sent_on)
sortBySentOn(list) ==
  stableSort(list,
             [j \in DOMAIN list |->
               [i \in DOMAIN list |->
                  list[j].email_sent_on - list[i].email_sent_on]])

\* The loop over emailsByRecipient: for each recipient of an initial email,
\* in insertion order, whether it is pushed and with which date.
needingFollowup(order, emailsByRecipient, followupsByRecipient, replied, contacts, now, shift) ==
  filterByFlags(
    [k \in DOMAIN order |->
       contactEntry(contacts, order[k],
                    mostRecentCommunication(order[k], emailsByRecipient[order[k]],
                                            followupsByRecipient))],
    [k \in DOMAIN order |->
       /\ order[k] \notin replied
       /\ olderThan(mostRecentCommunication(order[k], emailsByRecipient[order[k]],
                                            followupsByRecipient),
                    now, shift)])

\* ContactsService.getContactsWithSentEmails
getContactsWithSentEmails(emails, followups, replies, contacts, now, shift) ==
  IF Len(contacts) = 0 THEN <<>>
  ELSE sortBySentOn(
         needingFollowup(keysInOrder(latestByRecipient(emails)),
                         latestByRecipient(emails), latestByRecipient(followups),
                         repliedContactsSet(replies), contacts, now, shift))

\* DashboardService.getFollowupsNeededCount: the recipients of either table
\* that have not replied and whose last communication is before the cutoff.
getFollowupsNeededCount(emails, followups, replies, now, shift) ==
  Cardinality(
    {addr \in DOMAIN latestByRecipient(emails \cup followups) :
       /\ addr \notin repliedContactsSet(replies)
       /\ olderThan(latestByRecipient(emails \cup followups)[addr], now, shift)})

MaxRows == 2      \* rows of useremaillog and of followuplogs

Addresses == {<<"a","@","x">>, <<"A","@","x">>, <<"b","@","x">>}
EmailRows ==
  {[to |-> a, sentAt |-> CallTime - age] :
     a \in Addresses \cup {Null}, age \in {2, 47, 96}}
FollowupRows ==
  {[to |-> a, sentAt |-> CallTime - age] :
     a \in {<<"a","@","x">>, <<"b","@","x">>}, age \in {2, 96}}
ContactLists ==
  {<<>>, << <<"a","@","x">> >>, << <<"A","@","x">>, <<"b","@","x">> >>}
ClockShifts == {-2, 0, 2}

\* An initial email or a follow-up is logged, a reply is recorded ...
LogEmail(row) ==
  /\ pc = "mail"
  /\ row \notin emailLogs /\ Cardinality(emailLogs) < MaxRows
  /\ emailLogs' = emailLogs \cup {row}
  /\ UNCHANGED <<pc, followupLogs, repliesKpi, allContacts, clockShift,
                 contactsNeedingFollowup, pending>>
  /\ UNCHANGED <<locVars, simVars, searchVars, tableWrites, boxVars, handlerVars>>

LogFollowup(row) ==
  /\ pc = "mail"
  /\ row \notin followupLogs /\ Cardinality(followupLogs) < MaxRows
  /\ followupLogs' = followupLogs \cup {row}
  /\ UNCHANGED <<pc, emailLogs, repliesKpi, allContacts, clockShift,
                 contactsNeedingFollowup, pending>>
  /\ UNCHANGED <<locVars, simVars, searchVars, tableWrites, boxVars, handlerVars>>

RecordReply(address) ==
  /\ pc = "mail"
  /\ address \notin repliesKpi
  /\ repliesKpi' = repliesKpi \cup {address}
  /\ UNCHANGED <<pc, emailLogs, followupLogs, allContacts, clockShift,
                 contactsNeedingFollowup, pending>>
  /\ UNCHANGED <<locVars, simVars, searchVars, tableWrites, boxVars, handlerVars>>

\* ... and the follow-up page or the dashboard asks.
GetContactsWithSentEmails(shift) ==
  /\ pc = "mail"
  /\ clockShift' = shift
  /\ contactsNeedingFollowup' =
       getContactsWithSentEmails(emailLogs, followupLogs, repliesKpi,
                                 allContacts, CallTime, shift)
  /\ pc' = "listed"
  /\ UNCHANGED <<emailLogs, followupLogs, repliesKpi, allContacts, pending>>
  /\ UNCHANGED <<locVars, simVars, searchVars, tableWrites, boxVars, handlerVars>>

GetFollowupsNeededCount(shift) ==
  /\ pc = "mail"
  /\ clockShift' = shift
  /\ pending' = getFollowupsNeededCount(emailLogs, followupLogs, repliesKpi,
                                        CallTime, shift)
  /\ pc' = "counted"
  /\ UNCHANGED <<emailLogs, followupLogs, repliesKpi, allContacts,
                 contactsNeedingFollowup>>
  /\ UNCHANGED <<locVars, simVars, searchVars, tableWrites, boxVars, handlerVars>>

InitContacts ==
  /\ pc = "mail"
  /\ emailLogs = {} /\ followupLogs = {} /\ repliesKpi = {}
  /\ allContacts \in ContactLists
  /\ clockShift = 0 /\ contactsNeedingFollowup = <<>> /\ pending = 0
  /\ tableWrites = {}
  /\ LocIdle /\ SimIdle /\ SearchIdle /\ BoxIdle /\ HandlerIdle

NextContacts ==
  \/ \E row \in EmailRows : LogEmail(row)
  \/ \E row \in FollowupRows : LogFollowup(row)
  \/ \E address \in {<<"A","@","x">>, <<"b","@","x">>} : RecordReply(address)
  \/ \E shift \in ClockShifts : GetContactsWithSentEmails(shift)
  \/ \E shift \in ClockShifts : GetFollowupsNeededCount(shift)

SpecContacts == InitContacts /\ [][NextContacts]_vars

-----------------------------------------------------------------------------
(* pages/api/resume-generation.ts: the request handler                     *)
(*                                                                         *)
(* One request is handled; handlerPc is the await the handler is suspended *)
(* at.  The answers of supabase.auth.getUser, of fetch and of the reads of *)
(* the upstream response are chosen by the environment.                    *)

\* The JSON body `null`, and an object body with its three fields.
NullBody ==
  [isNull |-> TRUE, supabase_link |-> Undefined, r_name |-> Undefined,
   c_name |-> Undefined]
ObjectBody(supabase_link, r_name, c_name) ==
  [isNull |-> FALSE, supabase_link |-> supabase_link, r_name |-> r_name,
   c_name |-> c_name]

FieldValues == {Undefined, <<>>, <<"x">>}
Requests ==
  [method : {"OPTIONS", "GET", "POST"},
   authorization : {Undefined, <<>>, <<"B","e","a","r","e","r"," ","t">>},
   body : {NullBody} \cup
          {ObjectBody(l, r, c) : l \in FieldValues, r \in FieldValues,
                                 c \in FieldValues}]

\* What `await supabase.auth.getUser(token)` can give: a user, an error, no
\* user and no error, or a rejection.
AuthResults ==
  {[user |-> <<"u">>, error |-> Null, threw |-> FALSE],
   [user |-> Null, error |-> <<"e">>, threw |-> FALSE],
   [user |-> Null, error |-> Null, threw |-> FALSE],
   [user |-> Null, error |-> Null, threw |-> TRUE]}

\* What `await fetch(...)` can give: a response with ok = (200 <= status <=
\* 299), or a rejection.
AwsResponses ==
  {[ok |-> s \in 200..299, status |-> s, threw |-> FALSE, read |-> "none"] :
     s \in {200, 201, 403, 500}}
  \cup {[ok |-> FALSE, status |-> 0, threw |-> TRUE, read |-> "none"]}

\* if (authError || !user)
unauthorized(auth) == auth.error # Null \/ auth.user = Null

\* A validation that lets every body through.
missingFields_never(body) == FALSE

\* if (!supabase_link || !r_name || !c_name)
missingFields(body) ==
  ~truthy(body.supabase_link) \/ ~truthy(body.r_name) \/ ~truthy(body.c_name)

\* JSON.stringify({ supabase_link, r_name, c_name })
uploadRequest(body) ==
  [supabase_link |-> body.supabase_link, r_name |-> body.r_name,
   c_name |-> body.c_name]

\* res.status(code).json(...) / .end() as the last statement of the handler.
Respond(code) ==
  /\ responses' = Append(responses, code)
  /\ handlerPc' = "done"

\* Lines 11-32: from the call up to the first await.
HandlerStart ==
  /\ pc = "api" /\ handlerPc = "start"
  /\ IF req.method = "OPTIONS" THEN Respond(200)
     ELSE IF req.method # "POST" THEN Respond(405)
     ELSE IF ~truthy(req.authorization) THEN Respond(401)
     ELSE /\ handlerPc' = "getUser"
          /\ UNCHANGED responses
  /\ UNCHANGED <<pc, req, user, awsResponse, upstream>>
  /\ UNCHANGED <<locVars, simVars, searchVars, tableWrites, boxVars, contactVars>>

\* Lines 32-53: getUser settles; the handler runs up to the fetch.
GetUserSettles(auth) ==
  /\ pc = "api" /\ handlerPc = "getUser"
  /\ user' = auth
  /\ IF auth.threw THEN Respond(500) /\ UNCHANGED upstream
     ELSE IF unauthorized(auth) THEN Respond(401) /\ UNCHANGED upstream
     ELSE IF req.body.isNull THEN Respond(500) /\ UNCHANGED upstream
     ELSE IF missingFields(req.body) THEN Respond(400) /\ UNCHANGED upstream
     ELSE /\ upstream' = Append(upstream, uploadRequest(req.body))
          /\ handlerPc' = "fetch"
          /\ UNCHANGED responses
  /\ UNCHANGED <<pc, req, awsResponse>>
  /\ UNCHANGED <<locVars, simVars, searchVars, tableWrites, boxVars, contactVars>>

\* Lines 47-62: fetch settles; the handler starts to read the response.
FetchSettles(response) ==
  /\ pc = "api" /\ handlerPc = "fetch"
  /\ awsResponse' = response
  /\ IF response.threw THEN Respond(500)
     ELSE /\ handlerPc' = IF response.ok THEN "json" ELSE "text"
          /\ UNCHANGED responses
  /\ UNCHANGED <<pc, req, user, upstream>>
  /\ UNCHANGED <<locVars, simVars, searchVars, tableWrites, boxVars, contactVars>>

\* Lines 56-59: awsResponse.text() settles.
TextSettles(threw) ==
  /\ pc = "api" /\ handlerPc = "text"
  /\ awsResponse' = [awsResponse EXCEPT !.read = IF threw THEN "threw" ELSE "text"]
  /\ IF threw THEN Respond(500) ELSE Respond(awsResponse.status)
  /\ UNCHANGED <<pc, req, user, upstream>>
  /\ UNCHANGED <<locVars, simVars, searchVars, tableWrites, boxVars, contactVars>>

\* Lines 62-63: awsResponse.json() settles.
JsonSettles(threw) ==
  /\ pc = "api" /\ handlerPc = "json"
  /\ awsResponse' = [awsResponse EXCEPT !.read = IF threw THEN "threw" ELSE "json"]
  /\ IF threw THEN Respond(500) ELSE Respond(200)
  /\ UNCHANGED <<pc, req, user, upstream>>
  /\ UNCHANGED <<locVars, simVars, searchVars, tableWrites, boxVars, contactVars>>

InitHandler ==
  /\ pc = "api" /\ handlerPc = "start"
  /\ req \in Requests
  /\ user = NoAuthResult /\ awsResponse = NoAwsResponse
  /\ responses = <<>> /\ upstream = <<>>
  /\ tableWrites = {}
  /\ LocIdle /\ SimIdle /\ SearchIdle /\ BoxIdle /\ ContactsIdle

NextHandler ==
  \/ HandlerStart
  \/ \E auth \in AuthResults : GetUserSettles(auth)
  \/ \E response \in AwsResponses : FetchSettles(response)
  \/ \E threw \in BOOLEAN : TextSettles(threw)
  \/ \E threw \in BOOLEAN : JsonSettles(threw)

SpecHandler == InitHandler /\ [][NextHandler]_vars

-----------------------------------------------------------------------------
(* Properties of LocationService.normalizeLocation (SpecLoc)               *)

\* The registered name the input was made from: the input without its padding.
inputName == trim(location)

\* Whether the trimmed, lowercased input is a key of the lookup map.
isRegistered ==
  toLowerCase(inputName) \in DOMAIN LocationService(locTable).locationLookupMap

\* The entries of a table that list v among their variations.
entriesListing(mappings, v) ==
  {i \in DOMAIN mappings : v \in Range(mappings[i].variations)}

\* C2: normalizeLocation("Bengaluru") and normalizeLocation("Bangalore") both
\* return exactly "Bangalore", in each of the two LocationService tables.
C2_BangaloreIsCanonical ==
  (pc = "normalized" /\ location \in {<<"B","e","n","g","a","l","u","r","u">>, <<"B","a","n","g","a","l","o","r","e">>})
    => normalized = <<"B","a","n","g","a","l","o","r","e">>

\* C3: the alias table is a function from variants to canonical names: every
\* registered variant belongs to exactly one entry, and every primary name p
\* normalizes to itself, in each of the two tables.
C3_AliasTableIsFunction ==
  pc = "normalized" =>
    LET mappings == LocationService(locTable).locationMappings
    IN /\ \A i \in DOMAIN mappings :
            \A v \in Range(mappings[i].variations) :
              entriesListing(mappings, v) = {i}
       /\ \A i \in DOMAIN mappings :
            location = mappings[i].primary => normalized = location

\* C4: normalizeLocation is idempotent: normalizing the name it returned
\* returns that name again, for a registered name in any letter case or with
\* surrounding white space and for unknown text.
C4_NormalizeIdempotent ==
  pc = "renormalized" => renormalized = normalized

\* C5: for an input whose trimmed, lowercased form is not a key of the lookup
\* map, normalizeLocation returns the input with leading and trailing white
\* space removed and otherwise unchanged.
C5_UnknownPassesThroughTrimmed ==
  (pc = "normalized" /\ ~isRegistered) => normalized = inputName

-----------------------------------------------------------------------------
(* Properties of the edit distance and the similarity (SpecSim)            *)

\* C6: levenshteinDistance(s, s) = 0 for every string s, and
\* levenshteinDistance(a, b) = levenshteinDistance(b, a) for all a and b, in
\* each implementation.
C6_DistanceZeroAndSymmetric ==
  pc = "distance" => distance.aa = 0 /\ distance.ab = distance.ba

\* C6 witness: two different strings of different lengths at a positive
\* distance.
C6_Witness ==
  /\ pc = "distance"
  /\ Len(str1) # Len(str2) /\ str1 # <<>> /\ str2 # <<>>
  /\ distance.ab > 1

\* C7: calculateSimilarity returns exactly 1.0 for identical arguments, two
\* empty strings included, and exactly 0.0 when exactly one argument is empty,
\* in each of the four implementations.
C7_SimilarityOfIdenticalAndEmpty ==
  pc = "similarity" =>
    /\ str1 = str2 => numEquals(similarity, 1)
    /\ (str1 = <<>>) # (str2 = <<>>) => numEquals(similarity, 0)

-----------------------------------------------------------------------------
(* Properties of SearchService.searchJobs (Spec)                           *)

\* The call the state records, made again with another filters.location.
searchWithLocation(loc) ==
  searchJobs(impl.variant, LocationService(impl.table), jobs,
             [params EXCEPT !.filters.location = loc], Now, impl.engine)

\* The variations a table lists under the primary name c.
variationsListedUnder(t, c) ==
  UNION {Range(LocationService(t).locationMappings[i].variations) :
           i \in {k \in DOMAIN LocationService(t).locationMappings :
                     LocationService(t).locationMappings[k].primary = c}}

sameJobsAndTotal(r1, r2) ==
  Range(r1.jobs) = Range(r2.jobs) /\ r1.total = r2.total

\* C1: alias transparency: with filters.location a canonical name c, the
\* search returns the same set of jobs and the same total as with any
\* variant v registered under c, in both variants and with either table.
C1_AliasTransparency ==
  (pc = "searched" /\ params.filters.present) =>
    \A v \in variationsListedUnder(impl.table, params.filters.location) :
      sameJobsAndTotal(searchWithLocation(v), result)

\* C8: searchJobs never rejects: the promise resolves, and when a step raised
\* an exception (as reading a field of a null element does) it resolves to
\* the empty result.
C8_NeverRejects ==
  pc = "searched" =>
    /\ result.status = "resolved"
    /\ (\E i \in DOMAIN jobs : jobs[i].isNull) => result = EmptyResponse

\* The scores calculateRelevanceScores gave: those of the whole ranked list.
scores == {result.sorted[i].relevanceScore : i \in DOMAIN result.sorted}

\* C9: every relevance score lies in 0..100.
C9_ScoreWithin0And100 ==
  pc = "searched" => \A score \in scores : score \in 0..100

\* C9 as amended: in the first variant every score lies in 0..100, the sum
\* being capped at 100; the second variant has no cap, and its scores are
\* only known to be 0 or more.
C9_ScoreCappedInFirstVariant ==
  pc = "searched" =>
    \A score \in scores :
      IF impl.variant = 1 THEN score \in 0..100 ELSE score >= 0

\* The job of the caller's array with this id, and its index there.
inputIndex(id) == CHOOSE k \in DOMAIN jobs : jobs[k].id = id
jobWithId(id) == jobs[inputIndex(id)]

\* C9 witness: a job of the first variant whose bonuses add up to more than
\* 100 was given the score 100.
C9_Witness ==
  /\ pc = "searched" /\ impl.variant = 1
  /\ \E i \in DOMAIN result.sorted :
       /\ result.sorted[i].relevanceScore = 100
       /\ uncappedScore1(LocationService(impl.table),
                         jobWithId(result.sorted[i].id), params, Now) > 100

\* C10: for any two returned results r before s, score(r) >= score(s).
C10_OrderedByRelevanceFirst ==
  pc = "searched" =>
    \A i, j \in DOMAIN result.results :
      i < j => result.results[i].relevanceScore
                 >= result.results[j].relevanceScore

\* A returned result with its job record, as the comparators take it.
withJob(r) == [job |-> jobWithId(r.id), relevanceScore |-> r.relevanceScore]

\* The comparator the call sorts by when sortBy and sortOrder are given.
requestedComparison(r, s) ==
  inOrder(params.sortOrder,
          IF impl.variant = 1
          THEN sortComparison(params.sortBy, withJob(r), withJob(s))
          ELSE sortComparison2(params.sortBy, withJob(r), withJob(s)))

\* r has the higher score, or the same score and the earlier place in the
\* caller's array.
rankedBefore(r, s) ==
  \/ r.relevanceScore > s.relevanceScore
  \/ r.relevanceScore = s.relevanceScore /\ inputIndex(r.id) < inputIndex(s.id)

\* r stands before s by the requested order, relevance deciding among equals.
requestedBefore(comparison, r, s) ==
  comparison < 0 \/ (comparison = 0 /\ rankedBefore(r, s))

\* C10 as amended: with sortBy and sortOrder both given the results are
\* ordered by the sort field (creation date, title or company name; any other
\* sortBy stands for relevance descending), ascending for sortOrder "asc" and
\* reversed otherwise; relevance score descending, then input order, decides
\* only among results equal on that field.  Without both, the order is
\* relevance score descending, then input order.
C10_OrderedBySortFieldThenRelevance ==
  pc = "searched" =>
    \A i, j \in DOMAIN result.results :
      i < j =>
        IF params.sortBy # "" /\ params.sortOrder # ""
        THEN requestedBefore(
               requestedComparison(result.results[i], result.results[j]),
               result.results[i], result.results[j])
        ELSE rankedBefore(result.results[i], result.results[j])

\* C10 witness: a search sorted by title returned a result before one with a
\* higher relevance score.
C10_Witness ==
  /\ pc = "searched" /\ params.sortBy = "job_title" /\ params.sortOrder = "asc"
  /\ \E i, j \in DOMAIN result.results :
       /\ i < j
       /\ result.results[i].relevanceScore < result.results[j].relevanceScore

\* Whether a step of the recorded call raised an exception: the first variant
\* then resolves to the empty result, the second rejects.
searchThrew ==
  IF impl.variant = 1
  THEN trySearchJobs1(LocationService(impl.table), jobs, params, Now,
                      impl.engine).thrown
  ELSE result.status = "rejected"

\* The number of jobs of the caller's array that passed the filters and the
\* text search of the recorded call.
passedCount ==
  IF impl.variant = 1
  THEN Len(textSearchStep1(
             applyFilters1(LocationService(impl.table), jobs, params.filters),
             params).value)
  ELSE Len(textSearchStep2(
             filterStep2(LocationService(impl.table), jobs, params), params))

\* The ids at the 0-based positions offset .. offset+limit-1 of a list, fewer
\* when the list ends before.
idsAt(list, offset, limit) ==
  [k \in 1..Max(0, Min(limit, Len(list) - offset)) |-> list[offset + k].id]

\* C11: pagination is a slice taken after sorting: for limit >= 1 the
\* returned jobs are the elements at positions offset .. offset+limit-1 of
\* the fully sorted result sequence (fewer if it ends), and total is the
\* number of jobs that passed filtering and text search, whatever limit and
\* offset are.  Stated for the calls in which no step raised an exception.
C11_PageIsSliceOfSorted ==
  (pc = "searched" /\ ~searchThrew) =>
    /\ params.limit >= 1 =>
         /\ result.jobs = idsAt(result.sorted, params.offset, params.limit)
         /\ [i \in DOMAIN result.results |-> result.results[i].id] = result.jobs
    /\ result.total = passedCount
    /\ result.total = Len(result.sorted)

\* C11 witness: limit 1 and offset 1 over three equally scored jobs returned
\* exactly the second of them, and total 3.
C11_Witness ==
  /\ pc = "searched" /\ ~searchThrew
  /\ params.limit = 1 /\ params.offset = 1
  /\ Len(result.sorted) = 3
  /\ \A i \in DOMAIN result.sorted :
       result.sorted[i].relevanceScore = result.sorted[1].relevanceScore
  /\ result.jobs = <<result.sorted[2].id>>
  /\ result.total = 3

\* The ids of the caller's array, in its order.
inputIds == [i \in DOMAIN jobs |-> jobs[i].id]

\* The recorded call had no filter set: no filters object, or one whose
\* fields are all absent.
noFilterGiven == ~params.filters.present \/ params.filters = NoConstraint

\* C12: with an empty or absent query, no filters and no limit or offset,
\* searchJobs returns every job of the input list exactly once and total is
\* the input length.  Stated for the calls in which no step raised an
\* exception.
C12_EmptyQueryReturnsAll ==
  (pc = "searched" /\ ~searchThrew /\ ~truthy(params.query) /\ noFilterGiven
     /\ params.limit = 0 /\ params.offset = 0) =>
    /\ Len(result.jobs) = Len(jobs)
    /\ Range(result.jobs) = Range(inputIds)
    /\ result.total = Len(jobs)

\* C12 witness: three jobs were searched without query and filters, and all
\* three came back, in another order than the caller's.
C12_Witness ==
  /\ pc = "searched" /\ ~searchThrew /\ ~truthy(params.query) /\ noFilterGiven
  /\ params.limit = 0 /\ params.offset = 0
  /\ Len(jobs) = 3 /\ Len(result.jobs) = 3 /\ result.jobs # inputIds

\* C13: for an empty input job list searchJobs resolves to an empty job list,
\* an empty result list and total 0, whatever the query, filters, sort and
\* pagination parameters are.
C13_EmptyInputGivesEmptyResult ==
  (pc = "searched" /\ jobs = <<>>) =>
    /\ result.status = "resolved"
    /\ result.jobs = <<>> /\ result.results = <<>> /\ result.total = 0

\* C13 witness: an empty list was searched with a query and a sort order.
C13_Witness ==
  /\ pc = "searched" /\ jobs = <<>>
  /\ truthy(params.query) /\ params.sortBy = "job_title" /\ params.sortOrder = "desc"
  /\ result.status = "resolved" /\ result.total = 0

\* The call the state records, made again with another filters.experience.
searchWithExperience(e) ==
  searchJobs(impl.variant, LocationService(impl.table), jobs,
             [params EXCEPT !.filters.experience = e], Now, impl.engine)

\* C14: an experience filter value that is not a tier of the hierarchy
\* ("intern", which the filter UI offers, or an unknown string) is treated as
\* no constraint: the search returns what it returns with filters.experience
\* omitted or "any".
C14_UnknownExperienceIsNoConstraint ==
  (pc = "searched" /\ params.filters.present
     /\ params.filters.experience \notin {"", "any"} \cup Range(experienceHierarchy)) =>
    /\ result = searchWithExperience("")
    /\ result = searchWithExperience("any")

\* The call the state records, made again with another sortBy.
searchWithSortBy(s) ==
  searchJobs(impl.variant, LocationService(impl.table), jobs,
             [params EXCEPT !.sortBy = s], Now, impl.engine)

\* C15: a sortBy value other than created_at, job_title and company_name is
\* treated as no constraint: for either sortOrder the returned order is the
\* one produced when sortBy is omitted, relevance score descending.
C15_UnknownSortByIsNoConstraint ==
  (pc = "searched" /\ params.sortOrder \in {"asc", "desc"}
     /\ params.sortBy \notin {"", "created_at", "job_title", "company_name"}) =>
    /\ result.jobs = searchWithSortBy("").jobs
    /\ \A i, j \in DOMAIN result.results :
         i < j => result.results[i].relevanceScore
                    >= result.results[j].relevanceScore

\* The score the recorded call's variant gives a job record.
scoreOf(job) ==
  IF impl.variant = 1
  THEN relevanceScore1(LocationService(impl.table), job, params, Now)
  ELSE relevanceScore2(job, params, Now)

\* A job identical to the given one except for a title that contains none of
\* the queries.
withoutTitleMatch(job) == [job EXCEPT !.title = <<"X">>]

\* The ranked results whose job title contains the query.
titleMatches ==
  {i \in DOMAIN result.sorted :
     /\ jobWithId(result.sorted[i].id).title # Undefined
     /\ includes(toLowerCase(jobWithId(result.sorted[i].id).title),
                 toLowerCase(params.query))}

\* C16: with a non-empty query, a job whose title contains the query gets a
\* relevance score strictly greater than a job that differs from it only in
\* a title that does not contain the query.
C16_TitleMatchScoresHigher ==
  (pc = "searched" /\ truthy(params.query)) =>
    \A i \in titleMatches :
      result.sorted[i].relevanceScore
        > scoreOf(withoutTitleMatch(jobWithId(result.sorted[i].id)))

\* C16 as amended: the score of the job with the title match is never lower;
\* it is strictly greater in the second variant, and in the first variant
\* unless the job without the title match already has the capped score 100,
\* in which case both have 100.
C16_TitleMatchScoresHigherBelowCap ==
  (pc = "searched" /\ truthy(params.query)) =>
    \A i \in titleMatches :
      IF impl.variant = 1
           /\ scoreOf(withoutTitleMatch(jobWithId(result.sorted[i].id))) = 100
      THEN result.sorted[i].relevanceScore = 100
      ELSE result.sorted[i].relevanceScore
             > scoreOf(withoutTitleMatch(jobWithId(result.sorted[i].id)))

\* C16 witness: the first variant scored a job with a title match 100, the
\* score the same job has without the title match.
C16_Witness ==
  /\ pc = "searched" /\ truthy(params.query) /\ impl.variant = 1
  /\ \E i \in titleMatches :
       /\ result.sorted[i].relevanceScore = 100
       /\ scoreOf(withoutTitleMatch(jobWithId(result.sorted[i].id))) = 100

entriesRegistering ==
  {i \in DOMAIN LocationService(locTable).locationMappings :
     toLowerCase(inputName)
       \in {toLowerCase(n) :
              n \in {LocationService(locTable).locationMappings[i].primary}
                      \cup Range(LocationService(locTable).locationMappings[i].variations)}}

\* C18: for a registered name getLocationVariations returns the canonical
\* name followed by all variations of that canonical entry in table order,
\* so that getLocationVariations("Bangalore") starts with "Bangalore",
\* "Bengaluru", "Bangaluru", "BLR"; for a name that is not registered it
\* returns the one-element list of the input.
C18_VariationsOfCanonicalEntry ==
  pc = "variations" =>
    /\ isRegistered =>
         \E i \in entriesRegistering :
           variations =
             <<LocationService(locTable).locationMappings[i].primary>>
               \o LocationService(locTable).locationMappings[i].variations
    /\ location = <<"B","a","n","g","a","l","o","r","e">> =>
         /\ Len(variations) >= 4
         /\ SubSeq(variations, 1, 4) =
              << <<"B","a","n","g","a","l","o","r","e">>,
                 <<"B","e","n","g","a","l","u","r","u">>,
                 <<"B","a","n","g","a","l","u","r","u">>, <<"B","L","R">> >>
    /\ ~isRegistered => variations = <<location>>

\* C19: searchLocations with an empty query returns the curated list of
\* popular locations, truncated to limit: never an empty list (for a limit of
\* 1 or more) and never a list derived from other data.
C19_EmptyQueryGivesPopularLocations ==
  (pc = "suggestions" /\ location = <<>>) =>
    suggestions =
      SubSeq(getPopularLocations, 1,
             Min(limitOrDefault(limitArg), Len(getPopularLocations)))

\* Whether a job passes one filter of the recorded call, taken alone; a filter
\* that was not provided is passed by every job.
passesLocation(job) ==
  IF impl.variant = 1
  THEN locationFilter1(LocationService(impl.table), job, params.filters) = "pass"
  ELSE locationFilter2(LocationService(impl.table), job, params.filters)
passesExperience(job) ==
  IF impl.variant = 1 THEN experienceFilter1(job, params.filters) = "pass"
  ELSE experienceFilter2(job, params.filters)
passesRemote(job) ==
  IF impl.variant = 1 THEN remoteFilter1(job, params.filters) = "pass"
  ELSE remoteFilter2(job, params.filters)
passesCompany(job) ==
  IF impl.variant = 1 THEN companyFilter1(job, params.filters) = "pass"
  ELSE companyFilter2(job, params.filters)
passesEvery(job) ==
  /\ passesLocation(job) /\ passesExperience(job)
  /\ passesRemote(job) /\ passesCompany(job)

\* The filters the recorded call provided.
providedFilters ==
  IF ~params.filters.present THEN {}
  ELSE {f \in {"location", "experience", "remote", "company"} :
          IF f = "location"
            THEN truthy(params.filters.location) /\ truthy(trim(params.filters.location))
          ELSE IF f = "experience" THEN params.filters.experience \notin {"", "any"}
          ELSE IF f = "remote" THEN params.filters.remote \notin {"", "all"}
          ELSE truthy(params.filters.company) /\ truthy(trim(params.filters.company))}

returnedIds == {result.sorted[i].id : i \in DOMAIN result.sorted}

\* C20: filters combine with AND semantics: every returned job is an element
\* of the input list that passes every provided filter (location, experience,
\* remote, company), and, when no text query narrows the list further, every
\* job of the input that passes every provided filter is returned.  Stated
\* for the calls in which no step raised an exception.
C20_FiltersCombineWithAnd ==
  (pc = "searched" /\ ~searchThrew) =>
    /\ \A id \in returnedIds :
         \E k \in DOMAIN jobs : jobs[k].id = id /\ passesEvery(jobs[k])
    /\ ~truthy(params.query) =>
         \A k \in DOMAIN jobs : passesEvery(jobs[k]) => jobs[k].id \in returnedIds

\* C20 witness: a call that provided all four filters returned a job passing
\* all of them and left out a job that passes the remote filter but not the
\* location filter.
C20_Witness ==
  /\ pc = "searched" /\ ~searchThrew
  /\ Cardinality(providedFilters) = 4
  /\ \E k \in DOMAIN jobs : passesEvery(jobs[k]) /\ jobs[k].id \in returnedIds
  /\ \E k \in DOMAIN jobs :
       /\ passesRemote(jobs[k]) /\ ~passesLocation(jobs[k])
       /\ jobs[k].id \notin returnedIds

\* The location filter of the recorded call was provided.
locationFilterGiven == "location" \in providedFilters

\* normalize(job.location) contains normalize(filter.location) or the other
\* way round, compared without case.
symmetricContainment(job) ==
  containsEither(
    toLowerCase(normalizeLocation(LocationService(impl.table), job.location)),
    toLowerCase(normalizeLocation(LocationService(impl.table),
                                  params.filters.location)))

\* C21: the location filter uses symmetric containment on normalized names: a
\* job passes exactly when normalize(job.location) contains
\* normalize(filter.location) or normalize(filter.location) contains
\* normalize(job.location), without case; a job located in "Pune" passes the
\* filter "Pune, Maharashtra".
C21_LocationFilterIsSymmetricContainment ==
  (pc = "searched" /\ locationFilterGiven) =>
    \A k \in DOMAIN jobs :
      (~jobs[k].isNull /\ jobs[k].location # Undefined) =>
        (passesLocation(jobs[k]) <=> symmetricContainment(jobs[k]))

\* The tier the recorded variant extracts from a job's description.
extractedTier(job) ==
  IF impl.variant = 1 THEN extractExperienceLevel1(job.description)
  ELSE extractExperienceLevel2(job.description)

\* C22: the experience filter is a lower bound in the ordering entry < mid <
\* senior < lead: for a requested tier of that ordering a job passes exactly
\* when the tier extracted from its description stands at the same or a later
\* position.
C22_ExperienceFilterIsLowerBound ==
  (pc = "searched" /\ params.filters.present
     /\ params.filters.experience \in Range(experienceHierarchy)) =>
    \A k \in DOMAIN jobs :
      (~jobs[k].isNull /\ jobs[k].description # Undefined) =>
        (passesExperience(jobs[k]) <=>
           indexOf(experienceHierarchy, extractedTier(jobs[k]))
             >= indexOf(experienceHierarchy, params.filters.experience))

\* The lowercased searchable text of a job and the terms of the query of the
\* recorded call.
searchableText(job) ==
  IF impl.variant = 1 THEN searchableText1(job) ELSE searchableText2(job)
queryTerms ==
  LET terms == splitWhitespace(toLowerCase(params.query))
  IN {terms[k] : k \in {i \in DOMAIN terms : Len(terms[i]) > 0}}
textQueryGiven == truthy(params.query) /\ truthy(trim(params.query))

\* Some whitespace-delimited word of the text is similar to the term.
similarWord(text, term) ==
  \E word \in Range(splitWhitespace(text)) :
    greaterThan(
      IF impl.variant = 1 THEN calculateSimilaritySearch1(word, term)
      ELSE calculateSimilaritySearch2(word, term),
      7, 10)

\* A term is found in a job: as a substring of the text or, with fuzzy search
\* enabled, by a similar word.
termFound(job, term) ==
  \/ includes(searchableText(job), term)
  \/ fuzzyEnabled(params.fuzzySearch) /\ similarWord(searchableText(job), term)

\* C23: text search requires all whitespace-separated query terms to match: a
\* job is kept exactly when every term is a substring of its lowercased
\* searchable text or, with fuzzy search enabled, some word of that text has
\* similarity to the term above 0.7; a job matching only some of the terms is
\* excluded.  Stated for the calls in which no step raised an exception.
C23_EveryTermMustMatch ==
  (pc = "searched" /\ ~searchThrew /\ textQueryGiven) =>
    \A k \in DOMAIN jobs :
      passesEvery(jobs[k]) =>
        (jobs[k].id \in returnedIds <=>
           \A term \in queryTerms : termFound(jobs[k], term))

\* The unit-cost edit distance by its recursive definition: the fewest
\* insertions, deletions and substitutions that turn a into b.
RECURSIVE referenceDistance(_, _)
referenceDistance(a, b) ==
  IF Len(a) = 0 THEN Len(b)
  ELSE IF Len(b) = 0 THEN Len(a)
  ELSE Min(Min(referenceDistance(Tail(a), b) + 1,
               referenceDistance(a, Tail(b)) + 1),
           referenceDistance(Tail(a), Tail(b))
             + (IF Head(a) = Head(b) THEN 0 ELSE 1))

maxLength == Max(Len(str1), Len(str2))
lengthDifference ==
  IF Len(str1) > Len(str2) THEN Len(str1) - Len(str2) ELSE Len(str2) - Len(str1)

\* C24: calculateSimilarity(a, b) equals (max(len a, len b) - d(a, b)) /
\* max(len a, len b) with d the unit-cost edit distance of the recursive
\* reference definition, and the result lies in [0, 1] because
\* |len a - len b| <= d(a, b) <= max(len a, len b), in each implementation.
C24_SimilarityIsNormalisedEditDistance ==
  /\ pc = "distance" =>
       /\ distance.ab = referenceDistance(str1, str2)
       /\ lengthDifference <= distance.ab /\ distance.ab <= maxLength
  /\ pc = "similarity" =>
       /\ maxLength > 0 =>
            /\ similarity[1] * maxLength
                 = (maxLength - referenceDistance(str1, str2)) * similarity[2]
       /\ ~isNaN(similarity)
       /\ 0 <= similarity[1] /\ similarity[1] <= similarity[2]

\* The class of a suggested name for the query of the recorded call: 1 when
\* it equals the query, 2 when it only starts with it, 3 when it only
\* contains it, 4 otherwise (matched by similarity, or through a variation).
suggestionClass(name) ==
  IF toLowerCase(name) = trim(toLowerCase(location)) THEN 1
  ELSE IF startsWith(toLowerCase(name), trim(toLowerCase(location))) THEN 2
  ELSE IF includes(toLowerCase(name), trim(toLowerCase(location))) THEN 3
  ELSE 4

\* C25: for a non-empty query searchLocations returns at most limit distinct
\* primary names, ordered so that a name equal to the query precedes names
\* that only start with it, which precede names that only contain it, which
\* precede names matched only by similarity; names of the same class are in
\* alphabetical order.
C25_SuggestionsRankedByMatchClass ==
  (pc = "suggestions" /\ Len(trim(location)) > 0) =>
    /\ Len(suggestions) <= limitOrDefault(limitArg)
    /\ \A i, j \in DOMAIN suggestions : i < j =>
         /\ suggestions[i] # suggestions[j]
         /\ suggestionClass(suggestions[i]) <= suggestionClass(suggestions[j])
         /\ suggestionClass(suggestions[i]) = suggestionClass(suggestions[j]) =>
              localeCompare(suggestions[i], suggestions[j]) <= 0
    /\ \A i \in DOMAIN suggestions :
         \E k \in DOMAIN LocationService(locTable).locationMappings :
           LocationService(locTable).locationMappings[k].primary = suggestions[i]

-----------------------------------------------------------------------------
(* Properties of EnhancedJobSearch (SpecBox, SpecRecent)                   *)

\* C26: every change of searchQuery or jobs cancels the pending timer before
\* a new one is armed, so at most one timer is pending at any time;
\* generateSuggestions runs only for a query value that stayed unchanged for
\* the whole debounce delay; and when the timer fires for an empty query,
\* suggestions is the empty list and the dropdown is hidden.
C26_DebouncedSuggestions ==
  /\ [](pc = "box" => Len(timers) <= 1)
  /\ [][\A i \in DOMAIN timers : \A t \in Tables :
          TimerFires(i, t) =>
            /\ timers[i].query = searchQuery
            /\ unchangedFor >= DebounceDelay
            /\ ~truthy(trim(searchQuery)) =>
                 suggestionList' = <<>> /\ ~showSuggestions']_vars

\* C26 witness: after a search for some term the query became empty again,
\* stayed so for the delay, and the timer fired: no timer is pending, the
\* suggestions are empty and the dropdown is hidden.
C26_Witness ==
  /\ pc = "box" /\ lastSearched # Null
  /\ searchQuery = <<>> /\ unchangedFor >= DebounceDelay
  /\ timers = <<>> /\ ~armed
  /\ suggestionList = <<>> /\ ~showSuggestions


\* The list has at most 5 entries and no string twice.
recentIsBoundedAndDistinct ==
  /\ Len(recentSearches) <= 5
  /\ \A i, j \in DOMAIN recentSearches :
       recentSearches[i] = recentSearches[j] => i = j

\* C27, as stated: starting from a duplicate-free list of at most 5 entries,
\* after any sequence of handleSearch, handleSuggestionClick and
\* removeRecentSearch the list has at most 5 entries, no duplicate, the most
\* recently searched term at index 0, and localStorage 'recentSearches' holds
\* the JSON of the list.
C27_RecentSearchesInvariant ==
  pc = "box" =>
    /\ recentIsBoundedAndDistinct
    /\ lastSearched # Null =>
         /\ Len(recentSearches) > 0 /\ recentSearches[1] = lastSearched
         /\ storedRecent = stringify(recentSearches)

\* C27, amended: the most recently searched term is at index 0 as long as it
\* was not removed with removeRecentSearch (it is then absent and the
\* remaining entries keep their order); the stored item is the JSON of the
\* list once an operation wrote it, and is absent only while the list is
\* empty.
C27_RecentSearchesInvariantUnlessRemoved ==
  pc = "box" =>
    /\ recentIsBoundedAndDistinct
    /\ (lastSearched # Null /\ lastSearched \in Range(recentSearches)) =>
         recentSearches[1] = lastSearched
    /\ storedRecent = Null => recentSearches = <<>>
    /\ storedRecent # Null =>
         /\ storedRecent = stringify(recentSearches)
         /\ parse(storedRecent) = recentSearches

\* C27 witness: a sixth term was searched on a full list: it is first, the
\* oldest entry was dropped, and the stored item is the JSON of the list.
C27_Witness ==
  /\ pc = "box"
  /\ Len(recentSearches) = 5
  /\ lastSearched = <<"p","u","n","e">> /\ recentSearches[1] = lastSearched
  /\ <<"j","s">> \notin Range(recentSearches)
  /\ storedRecent = stringify(recentSearches)

-----------------------------------------------------------------------------
(* Properties of the follow-up computations (SpecContacts)                 *)

\* The time of the latest row, initial email or follow-up, sent to an
\* address, compared without case.
lastCommunication(address) ==
  latestByRecipient(emailLogs \cup followupLogs)[toLowerCase(address)]

\* C28: getContactsWithSentEmails never returns a recipient who has replied
\* nor one whose most recent communication, initial email or follow-up, is
\* within the last 24 hours; each recipient address, compared without case,
\* appears at most once; and the list is ordered by last-communication time,
\* oldest first.
C28_FollowupListIsSafe ==
  pc = "listed" =>
    /\ \A i \in DOMAIN contactsNeedingFollowup :
         /\ toLowerCase(contactsNeedingFollowup[i].email)
              \notin repliedContactsSet(repliesKpi)
         /\ lastCommunication(contactsNeedingFollowup[i].email)
              <= CallTime - 2 * 24
         /\ contactsNeedingFollowup[i].email_sent_on
              = lastCommunication(contactsNeedingFollowup[i].email)
    /\ \A i, j \in DOMAIN contactsNeedingFollowup :
         i < j =>
           /\ toLowerCase(contactsNeedingFollowup[i].email)
                # toLowerCase(contactsNeedingFollowup[j].email)
           /\ contactsNeedingFollowup[i].email_sent_on
                <= contactsNeedingFollowup[j].email_sent_on


\* C29: for the same useremaillog, followuplogs and replies_kpi rows,
\* getFollowupsNeededCount returns exactly the number of entries that
\* getContactsWithSentEmails returns, also when a recipient has only
\* follow-up rows and when the contacts table is empty.
C29_CountAgreesWithList ==
  pc = "counted" =>
    pending = Len(getContactsWithSentEmails(emailLogs, followupLogs, repliesKpi,
                                            allContacts, CallTime, clockShift))

-----------------------------------------------------------------------------
(* Properties of the resume-generation handler (SpecHandler)               *)

\* Every gate of the handler was passed by the request being handled.
gatesPassed ==
  /\ req.method = "POST"
  /\ truthy(req.authorization)
  /\ ~user.threw /\ user.user # Null /\ user.error = Null
  /\ ~req.body.isNull
  /\ truthy(req.body.supabase_link) /\ truthy(req.body.r_name)
  /\ truthy(req.body.c_name)

\* An exception was thrown inside the try block.
thrown ==
  \/ user.threw
  \/ req.method = "POST" /\ truthy(req.authorization) /\ ~user.threw
       /\ ~unauthorized(user) /\ req.body.isNull
  \/ awsResponse.threw
  \/ awsResponse.read = "threw"

\* The status the handler owes a request that does not reach the upstream
\* call and throws nothing.
gateStatus ==
  IF req.method = "OPTIONS" THEN 200
  ELSE IF req.method # "POST" THEN 405
  ELSE IF ~truthy(req.authorization) \/ unauthorized(user) THEN 401
  ELSE 400

\* C30: the upstream upload_resume request is issued only after the method
\* was POST, an Authorization header was present, getUser returned a user
\* without error and the body held non-empty supabase_link, r_name and
\* c_name, in that order; otherwise exactly one response is sent (200 for
\* OPTIONS, 405 for other methods, 401 for missing or invalid auth, 400 for
\* missing fields) and no upstream call is made; a thrown exception yields
\* a 500 response.
C30_RequestGating ==
  /\ [](pc = "api" =>
          /\ upstream # <<>> => gatesPassed /\ Len(upstream) = 1
          /\ handlerPc # "done" => responses = <<>> /\ ~thrown
          /\ handlerPc = "done" =>
               /\ Len(responses) = 1
               /\ thrown => responses[1] = 500
               /\ ~thrown /\ ~gatesPassed =>
                    upstream = <<>> /\ responses[1] = gateStatus)
  /\ [][upstream' # upstream =>
          /\ handlerPc = "getUser" /\ upstream = <<>>
          /\ req.method = "POST" /\ truthy(req.authorization)
          /\ ~unauthorized(user') /\ ~missingFields(req.body)
          /\ upstream' = <<uploadRequest(req.body)>>
          /\ responses' = <<>>]_vars

C30_Witness ==
  /\ pc = "api" /\ handlerPc = "done"
  /\ gatesPassed /\ upstream = <<uploadRequest(req.body)>>
  /\ awsResponse.ok /\ awsResponse.read = "json"
  /\ responses = <<200>>
====
